---- MODULE Spec2Model ----
(***************************************************************************)
(* A model of the ZMPY3D notebooks: the descriptor pipeline                *)
(* (OneTimeConversion_CP) and the shape comparator of the shape-score      *)
(* notebook.                                                               *)
(*                                                                         *)
(* Numbers are binary floating-point values rounded to nearest-even, as    *)
(* the arrays of the notebooks are (float64); the model keeps the          *)
(* rounding and scales the format down to MantBits of precision.           *)
(***************************************************************************)
EXTENDS Integers, Sequences, FiniteSets, TLC

(***************************************************************************)
(* Floating point.  A value is <<"f", m, e>> (the number m * 2^e, m odd,   *)
(* or <<"f", 0, 0>> for zero), <<"inf", 1, 0>>, <<"inf", -1, 0>> or        *)
(* <<"nan", 0, 0>>.                                                        *)
(***************************************************************************)
MantBits == 5
ExpLo == 30
ExpHi == 30

NaN == <<"nan", 0, 0>>
PInf == <<"inf", 1, 0>>
NInf == <<"inf", -1, 0>>
Zero == <<"f", 0, 0>>

isnan(x) == x[1] = "nan"
IsInf(x) == x[1] = "inf"
IsFinite(x) == x[1] = "f"
Sgn(i) == IF i > 0 THEN 1 ELSE IF i < 0 THEN -1 ELSE 0
AbsInt(i) == IF i < 0 THEN -i ELSE i
MaxInt(i, j) == IF i >= j THEN i ELSE j

\* the number of bits of a >= 0 (0 for 0)
\* (the guards of the recursive helpers name their counters, so that each
\* step works on evaluated numbers)
RECURSIVE BitLenFrom(_, _, _)
BitLenFrom(a, n, p) == IF a < p \/ n < 0 THEN n ELSE BitLenFrom(a, n + 1, 2 * p)
BitLen(a) ==
    IF a < 1024 THEN BitLenFrom(a, 0, 1)
    ELSE IF a < 1048576 THEN 10 + BitLenFrom(a \div 1024, 0, 1)
    ELSE 20 + BitLenFrom(a \div 1048576, 0, 1)

\* m * 2^e with the trailing zero bits of m moved into the exponent
RECURSIVE Canon(_, _)
Canon(m, e) ==
    IF m = 0 THEN Zero
    ELSE IF m % 2 = 0 /\ e = e THEN Canon(m \div 2, e + 1)
    ELSE <<"f", m, e>>

\* the integer nearest to a / b, ties to even
RoundHalfEven(a, b) ==
    IF 2 * (a % b) > b \/ (2 * (a % b) = b /\ (a \div b) % 2 = 1)
    THEN (a \div b) + 1 ELSE a \div b

\* floor(log2(a / b)), given d = BitLen(a) - BitLen(b)
FloorLog2From(a, b, d) ==
    IF (IF d >= 0 THEN a >= b * 2^d ELSE a * 2^(-d) >= b) THEN d ELSE d - 1
FloorLog2(a, b) == FloorLog2From(a, b, BitLen(a) - BitLen(b))

\* s * m * 2^t as a float; infinite when rounding carried past the range
Pack(s, m, t) ==
    IF BitLen(m) + t > ExpHi + MantBits THEN <<"inf", s, 0>> ELSE Canon(s * m, t)

\* (a / b) * 2^e rounded to a multiple of the quantum 2^t
Quantize(a, b, e, t) ==
    IF e >= t THEN RoundHalfEven(a * 2^(e - t), b) ELSE RoundHalfEven(a, b * 2^(t - e))

RoundAtQuantum(s, a, b, e, t) == Pack(s, Quantize(a, b, e, t), t)

\* given fl = floor(log2((a / b) * 2^e))
RoundAt(s, a, b, e, fl) ==
    IF fl < -ExpLo - 2 THEN Zero
    ELSE IF fl >= ExpHi + MantBits THEN <<"inf", s, 0>>
    ELSE RoundAtQuantum(s, a, b, e, MaxInt(fl - (MantBits - 1), -ExpLo))

\* the float nearest to s * (a / b) * 2^e  (s in {-1, 1}, a >= 0, b > 0)
RoundME(s, a, b, e) ==
    IF a = 0 THEN Zero ELSE RoundAt(s, a, b, e, FloorLog2(a, b) + e)

FromRat(a, b) == RoundME(Sgn(a), AbsInt(a), b, 0)
FromInt(i) == FromRat(i, 1)

FNeg(x) == IF isnan(x) THEN NaN ELSE <<x[1], -x[2], x[3]>>
FAbs(x) == IF isnan(x) THEN NaN ELSE <<x[1], AbsInt(x[2]), x[3]>>

\* the float nearest to n * 2^e, n an integer
RoundInt(n, e) == RoundME(Sgn(n), AbsInt(n), 1, e)

\* hi + lo for finite hi, lo with hi[3] >= lo[3]
FAddOrdered(hi, lo) ==
    IF hi[2] = 0 THEN lo
    ELSE IF lo[2] = 0 THEN hi
    ELSE IF hi[3] - lo[3] >= 2 * MantBits + 2 THEN hi
    ELSE RoundInt(hi[2] * 2^(hi[3] - lo[3]) + lo[2], lo[3])

FAddFinite(x, y) == IF x[3] >= y[3] THEN FAddOrdered(x, y) ELSE FAddOrdered(y, x)

FAdd(x, y) ==
    IF isnan(x) \/ isnan(y) THEN NaN
    ELSE IF IsInf(x) /\ IsInf(y) THEN (IF x[2] = y[2] THEN x ELSE NaN)
    ELSE IF IsInf(x) THEN x
    ELSE IF IsInf(y) THEN y
    ELSE FAddFinite(x, y)

FSub(x, y) == FAdd(x, FNeg(y))

FMul(x, y) ==
    IF isnan(x) \/ isnan(y) THEN NaN
    ELSE IF IsInf(x) \/ IsInf(y)
         THEN (IF x[2] = 0 \/ y[2] = 0 THEN NaN ELSE <<"inf", Sgn(x[2]) * Sgn(y[2]), 0>>)
    ELSE IF x[2] = 0 \/ y[2] = 0 THEN Zero
    ELSE RoundME(Sgn(x[2]) * Sgn(y[2]), AbsInt(x[2]) * AbsInt(y[2]), 1, x[3] + y[3])

FDiv(x, y) ==
    IF isnan(x) \/ isnan(y) THEN NaN
    ELSE IF IsInf(x) THEN (IF IsInf(y) THEN NaN
                           ELSE <<"inf", x[2] * (IF y[2] < 0 THEN -1 ELSE 1), 0>>)
    ELSE IF IsInf(y) THEN Zero
    ELSE IF y[2] = 0 THEN (IF x[2] = 0 THEN NaN ELSE <<"inf", Sgn(x[2]), 0>>)
    ELSE IF x[2] = 0 THEN Zero
    ELSE RoundME(Sgn(x[2]) * Sgn(y[2]), AbsInt(x[2]), AbsInt(y[2]), x[3] - y[3])

\* whether the finite or infinite x is positive
IsPositive(x) == (~isnan(x)) /\ x[2] > 0

\* x < y ; false when either is NaN
FLess(x, y) == IsPositive(FSub(y, x))

\* the largest integer whose square is at most n, by bisection on [lo, hi)
RECURSIVE ISqrtIn(_, _, _)
ISqrtIn(n, lo, hi) ==
    IF hi - lo <= 1 THEN lo
    ELSE IF ((lo + hi) \div 2) * ((lo + hi) \div 2) <= n
         THEN ISqrtIn(n, (lo + hi) \div 2, hi)
         ELSE ISqrtIn(n, lo, (lo + hi) \div 2)

ISqrt(n) == ISqrtIn(n, 0, 2^(BitLen(n) \div 2 + 1))

\* the float nearest to sqrt(big) * 2^e, given s = ISqrt(big)
SqrtRound(big, s, e) == RoundME(1, 2 * s + (IF s * s = big THEN 0 ELSE 1), 2, e)

\* the float nearest to sqrt(m1 * 2^e1), e1 even, m1 > 0
SqrtEven(m1, e1) ==
    SqrtRound(m1 * 4^(MantBits + 2), ISqrt(m1 * 4^(MantBits + 2)),
              (e1 \div 2) - (MantBits + 2))

\* the float nearest to the square root of x
FSqrt(x) ==
    IF isnan(x) \/ x[2] < 0 THEN NaN
    ELSE IF IsInf(x) THEN x
    ELSE IF x[2] = 0 THEN Zero
    ELSE IF x[3] % 2 = 1 THEN SqrtEven(2 * x[2], x[3] - 1)
    ELSE SqrtEven(x[2], x[3])

(***************************************************************************)
(* Arrays.  A vector is a sequence of floats; a complex number is a pair   *)
(* <<re, im>> of floats.                                                   *)
(***************************************************************************)
\* a NaN sum stays NaN whatever is added to it
RECURSIVE FSumFrom(_, _, _)
FSumFrom(v, i, acc) ==
    IF i > Len(v) \/ isnan(acc) THEN acc ELSE FSumFrom(v, i + 1, FAdd(acc, v[i]))

\* cp.sum: the elements added in index order
FSum(v) == FSumFrom(v \o <<>>, 1, Zero)

\* z[z != cp.nan]: a comparison with NaN is never false for !=
NanFilterByInequality(v) == SelectSeq(v, LAMBDA x : TRUE)

\* cp.nan_to_num(z): NaN replaced by 0 instead of removed
NanToZero(v) == [i \in 1..Len(v) |-> IF isnan(v[i]) THEN Zero ELSE v[i]] \o <<>>

\* z[~cp.isnan(z)] on a vector
NanFilter(v) == SelectSeq(v, LAMBDA x : ~isnan(x))

\* the row-major flattening of a two-dimensional array of rows of width c
FlattenRows(M, c) ==
    [i \in 1..(Len(M) * c) |-> M[((i - 1) \div c) + 1][((i - 1) % c) + 1]] \o <<>>
Flatten(M) == IF Len(M) = 0 THEN <<>> ELSE FlattenRows(M, Len(M[1]))

\* z[z != 0]: the mask written for the wrong "absent" value
MaskNonZero(M) == SelectSeq(Flatten(M), LAMBDA x : x # Zero)

\* z[~cp.isnan(z)] on a two-dimensional array: the kept elements, row-major
MaskNotNan(M) == NanFilter(Flatten(M))

RECURSIVE ConcatFrom(_, _)
ConcatFrom(parts, i) ==
    IF i > Len(parts) THEN <<>> ELSE parts[i] \o ConcatFrom(parts, i + 1)

\* cp.concatenate
Concatenate(parts) == ConcatFrom(parts, 1)

\* a[i] for one integer i of an index array: CuPy wraps an index that is
\* out of bounds instead of raising
TakeAt(a, i) == a[(i % Len(a)) + 1]

\* a[idx] for an integer index array idx
Take(a, idx) == [j \in 1..Len(idx) |-> TakeAt(a, idx[j])] \o <<>>

CZero == <<Zero, Zero>>
CIsNan(z) == isnan(z[1]) \/ isnan(z[2])
CAdd(z, w) == <<FAdd(z[1], w[1]), FAdd(z[2], w[2])>>
CMul(z, w) == <<FSub(FMul(z[1], w[1]), FMul(z[2], w[2])),
                FAdd(FMul(z[1], w[2]), FMul(z[2], w[1]))>>
CScale(z, x) == <<FMul(z[1], x), FMul(z[2], x)>>
CAbs2(z) == FAdd(FMul(z[1], z[1]), FMul(z[2], z[2]))

(***************************************************************************)
(* The library the notebooks call (ZMPY3D_CP as z).  Its code is not among *)
(* the notebooks; the operators of this section follow the design          *)
(* specification, sections 3 and 4.                                        *)
(***************************************************************************)

\* the triangular invariant of the (n, l, m) index (spec, section 3)
ValidNL(n, l) == 0 <= l /\ l <= n /\ (n - l) % 2 = 0
ValidNLM(n, l, m) == ValidNL(n, l) /\ -l <= m /\ m <= l

\* <<x^1, ..., x^n>>
RECURSIVE PowersFrom(_, _, _)
PowersFrom(x, n, acc) ==
    IF Len(acc) >= n THEN acc
    ELSE PowersFrom(x, n, Append(acc, IF acc = <<>> THEN x ELSE FMul(acc[Len(acc)], x)))
Powers(x, n) == PowersFrom(x, n, <<>>)

\* the powers 1..order+1 of each node of a lattice
PowerTable(S, order) == [i \in 1..Len(S) |-> Powers(S[i], order + 1)] \o <<>>

\* from the powers of the nodes: for each cell i and each exponent p - 1,
\* the integral of x^(p-1) over the cell, (S[i+1]^p - S[i]^p) / p
IntegralsOf(pw) ==
    [i \in 1..(Len(pw) - 1) |->
        [p \in 1..Len(pw[i]) |->
            FDiv(FSub(pw[i + 1][p], pw[i][p]), FromInt(p))] \o <<>>] \o <<>>

CellIntegrals(S, order) == IntegralsOf(PowerTable(S, order))

Shape(Voxel3D) == <<Len(Voxel3D), Len(Voxel3D[1]), Len(Voxel3D[1][1])>>
NumCells(shape) == shape[1] * shape[2] * shape[3]

\* cell number c of a grid of the given shape, in C order
CellAt(shape, c) ==
    << ((c - 1) \div (shape[2] * shape[3])) + 1,
       (((c - 1) \div shape[3]) % shape[2]) + 1,
       ((c - 1) % shape[3]) + 1 >>

Density(Voxel3D, c) == Voxel3D[c[1]][c[2]][c[3]]

\* the flat index of (p, q, r) in a tensor of the given order
LinearIndex(order, p, q, r) == (p * (order + 1) + q) * (order + 1) + r

\* the contribution of cell c to the moment (p, q, r)
MomentTerm(Voxel3D, IX, IY, IZ, c, p, q, r) ==
    FMul(FMul(FMul(Density(Voxel3D, c), IX[c[1]][p + 1]), IY[c[2]][q + 1]),
         IZ[c[3]][r + 1])

MomentEntry(Voxel3D, order, IX, IY, IZ, p, q, r) ==
    IF p + q + r > order THEN NaN
    ELSE FSum([c \in 1..NumCells(Shape(Voxel3D)) |->
                 MomentTerm(Voxel3D, IX, IY, IZ, CellAt(Shape(Voxel3D), c), p, q, r)])

\* the flattened cube of side order + 1; NaN where p + q + r > order
MomentTensor(Voxel3D, order, IX, IY, IZ) ==
    [k \in 1..((order + 1) * (order + 1) * (order + 1)) |->
        MomentEntry(Voxel3D, order, IX, IY, IZ,
                    (k - 1) \div ((order + 1) * (order + 1)),
                    ((k - 1) \div (order + 1)) % (order + 1),
                    (k - 1) % (order + 1))] \o <<>>

\* [VolumeMass, Center, Moment] of a tensor; zero total mass is an error
MomentResult(order, tensor) ==
    IF tensor[1] = Zero
    THEN [err |-> "DegenerateInputError", VolumeMass |-> tensor[1],
          Center |-> <<>>, Moment |-> [order |-> order, val |-> <<>>]]
    ELSE [err |-> "", VolumeMass |-> tensor[1],
          Center |-> << FDiv(tensor[LinearIndex(order, 1, 0, 0) + 1], tensor[1]),
                        FDiv(tensor[LinearIndex(order, 0, 1, 0) + 1], tensor[1]),
                        FDiv(tensor[LinearIndex(order, 0, 0, 1) + 1], tensor[1]) >>,
          Moment |-> [order |-> order, val |-> tensor]]

\* spec 4.2, computeMoments: the grid integrated against x^p y^q z^r on the
\* lattice, for every p + q + r <= order
calculate_bbox_moment(Voxel3D, order, X_sample, Y_sample, Z_sample) ==
    MomentResult(order,
        MomentTensor(Voxel3D, order, CellIntegrals(X_sample, order),
                     CellIntegrals(Y_sample, order), CellIntegrals(Z_sample, order)))

\* Param['default_radius_multiplier']
default_radius_multiplier == FromRat(9, 5)

Half == FromRat(1, 2)

Norm3(dx, dy, dz) == FSqrt(FAdd(FAdd(FMul(dx, dx), FMul(dy, dy)), FMul(dz, dz)))

\* the distance of the centre of cell c from Center
CellDist(c, Center) ==
    Norm3(FSub(FSub(FromInt(c[1]), Half), Center[1]),
          FSub(FSub(FromInt(c[2]), Half), Center[2]),
          FSub(FSub(FromInt(c[3]), Half), Center[3]))

CellDistances(Voxel3D, Center) ==
    [c \in 1..NumCells(Shape(Voxel3D)) |->
        CellDist(CellAt(Shape(Voxel3D), c), Center)] \o <<>>

RECURSIVE FMaxFrom(_, _, _)
FMaxFrom(v, i, acc) ==
    IF i > Len(v) THEN acc
    ELSE FMaxFrom(v, i + 1, IF FLess(acc, v[i]) THEN v[i] ELSE acc)

\* the average and the maximum density-weighted distance, times the multiplier
RadiusOf(Voxel3D, dist, VolumeMass, multiplier) ==
    << FMul(multiplier,
            FDiv(FSum([c \in 1..Len(dist) |->
                         FMul(Density(Voxel3D, CellAt(Shape(Voxel3D), c)), dist[c])]),
                 VolumeMass)),
       FMul(multiplier,
            FMaxFrom([c \in 1..Len(dist) |->
                        IF Density(Voxel3D, CellAt(Shape(Voxel3D), c)) = Zero
                        THEN Zero ELSE dist[c]] \o <<>>, 1, Zero)) >>

\* spec 4.2, computeMolecularRadius
calculate_molecular_radius(Voxel3D, Center, VolumeMass, multiplier) ==
    RadiusOf(Voxel3D, CellDistances(Voxel3D, Center), VolumeMass, multiplier)

\* np.arange(n), as floats
arange(n) == [i \in 1..n |-> FromInt(i - 1)] \o <<>>

\* spec 4.2: the sphere-rescaled lattice, centered on the center of mass,
\* with the spacing the average radius gives
get_bbox_moment_xyz_sample(Center, Radius, Dimension) ==
    [a \in 1..3 |-> [i \in 1..(Dimension[a] + 1) |->
                        FDiv(FSub(FromInt(i - 1), Center[a]), Radius)] \o <<>>] \o <<>>

(***************************************************************************)
(* The coefficient cache (spec 4.1).  A loaded table is a reference        *)
(* [table, order] to the immutable content of the bundle generated for     *)
(* that order; the content itself is read through the operators below.     *)
(***************************************************************************)
CacheTable(name, order) == [table |-> name, order |-> order]

\* the binomial table: one file for every order
BinomialTable == [table |-> "BinomialCache", file |-> "BinomialCache.pkl"]

\* GCache_pqr_linear: the flat index of (p, q, r)
PqrLinear(c, t) == LinearIndex(c.order, t[1], t[2], t[3])

\* GCache_complex_index: the geometric moment that (n, l, m) combines
ComplexIndex(c, t) == <<AbsInt(t[3]), t[2] - AbsInt(t[3]), t[1] - t[2]>>

\* GCache_complex: the coefficient of that moment
CoefSign(m) == IF m < 0 /\ m % 2 = 1 THEN -1 ELSE 1
ComplexCoef(c, t) ==
    << FromRat(CoefSign(t[3]) * (1 + ((t[1] + t[2]) % 3)), 2),
       FromRat(CoefSign(t[3]) * Sgn(t[3]) * (AbsInt(t[3]) % 3), 2) >>

\* CLMCache3D: the normalization constant of (n, l, m)
CLMValue(c, t) == FromRat(2 * t[2] + 1, t[1] + 1)

\* the entry of a geometric tensor at a flat index
MomentAtLinear(G, k) == IF k + 1 \in 1..Len(G.val) THEN G.val[k + 1] ELSE NaN

\* A moment set is [order, val]: val[n+1][l+1] is the sequence of the 2l+1
\* entries m = -l..l of a populated (n, l), and empty for an (n, l) that is
\* not populated.
\* the (n, l, m) entry of a moment set; an absent entry is NaN
ZMAt(zm, n, l, m) ==
    IF /\ n \in 0..zm.order /\ l \in 0..zm.order
       /\ m + l + 1 \in 1..Len(zm.val[n + 1][l + 1])
    THEN zm.val[n + 1][l + 1][m + l + 1]
    ELSE <<NaN, NaN>>

\* whether the tensor covers every (p, q, r) the cache references for order
CoversOrder(order, GCache_pqr_linear, SphereBBoxMoment) ==
    /\ SphereBBoxMoment.order = GCache_pqr_linear.order
    /\ order <= SphereBBoxMoment.order

\* the raw moments: each (n, l, m) from the geometric moment the cache maps
\* it to, times its coefficient
RawMoments(order, GCache_complex, GCache_pqr_linear, GCache_complex_index, SphereBBoxMoment) ==
    [order |-> order,
     val |-> [n \in 1..(order + 1) |->
                [l \in 1..(order + 1) |->
                    IF ValidNL(n - 1, l - 1)
                    THEN [k \in 1..(2 * l - 1) |->
                            CScale(ComplexCoef(GCache_complex, <<n - 1, l - 1, k - l>>),
                                   MomentAtLinear(SphereBBoxMoment,
                                       PqrLinear(GCache_pqr_linear,
                                           ComplexIndex(GCache_complex_index,
                                                        <<n - 1, l - 1, k - l>>))))]
                         \o <<>>
                    ELSE <<>>] \o <<>>] \o <<>>]

\* the scaled moments: the raw ones times the normalization constants
ScaledMoments(CLMCache3D, raw) ==
    [order |-> raw.order,
     val |-> [n \in 1..(raw.order + 1) |->
                [l \in 1..(raw.order + 1) |->
                    IF ValidNL(n - 1, l - 1)
                    THEN [k \in 1..(2 * l - 1) |->
                            CScale(ZMAt(raw, n - 1, l - 1, k - l),
                                   CLMValue(CLMCache3D, <<n - 1, l - 1, k - l>>))]
                         \o <<>>
                    ELSE <<>>] \o <<>>] \o <<>>]

ZernikeResult(CLMCache3D, raw) ==
    [err |-> "", raw |-> raw, scaled |-> ScaledMoments(CLMCache3D, raw)]

\* spec 4.3, toZernikeMoments: (scaledMoments, rawMoments)
calculate_bbox_moment_2_zm(order, GCache_complex, GCache_pqr_linear, GCache_complex_index, CLMCache3D, SphereBBoxMoment) ==
    IF ~CoversOrder(order, GCache_pqr_linear, SphereBBoxMoment)
    THEN [err |-> "OrderMismatchError", scaled |-> <<>>, raw |-> <<>>]
    ELSE ZernikeResult(CLMCache3D,
             RawMoments(order, GCache_complex, GCache_pqr_linear,
                        GCache_complex_index, SphereBBoxMoment))

\* acc plus the squared magnitude of z, a populated entry
AddNorm(acc, z) == IF CIsNan(z) THEN acc ELSE FAdd(acc, CAbs2(z))

RECURSIVE NormFrom(_, _, _, _, _)
NormFrom(zm, n, l, m, acc) ==
    IF m > l \/ isnan(acc) THEN acc
    ELSE NormFrom(zm, n, l, m + 1, AddNorm(acc, ZMAt(zm, n, l, m)))

\* spec 4.4, directInvariant: for each (n, l) the norm across the 2l+1
\* values of m over the populated entries; NaN where (n, l) violates the
\* triangular invariant.  Row n, column l, both from 0 to the order.
get_3dzd_121_descriptor(zm) ==
    [n \in 1..(zm.order + 1) |->
        [l \in 1..(zm.order + 1) |->
            IF ValidNL(n - 1, l - 1)
            THEN FSqrt(NormFrom(zm, n - 1, l - 1, -(l - 1), Zero))
            ELSE NaN] \o <<>>] \o <<>>

\* whether the entry z gives a rotation candidate
IsCandidate(z) == ~(CIsNan(z) \/ z = CZero)

RECURSIVE CandidatesFrom(_, _, _)
CandidatesFrom(zm, n, l) ==
    IF l > n THEN <<>>
    ELSE (IF IsCandidate(ZMAt(zm, n, l, l))
          THEN <<<<ZMAt(zm, n, l, l), ZMAt(zm, n, l, 0)>>>> ELSE <<>>)
         \o CandidatesFrom(zm, n, l + 2)

\* spec 4.5, computeCandidateRotations: the (A, B) pairs for a target
\* order, zero or more
calculate_ab_rotation(ZMoment_raw, TargetOrder) ==
    CandidatesFrom(ZMoment_raw, TargetOrder, IF TargetOrder % 2 = 0 THEN 2 ELSE 1)

\* spec 4.5, applyRotation: a linear map on each (n, l) block
RotateBy(zm, AB) ==
    [order |-> zm.order,
     val |-> [n \in 1..(zm.order + 1) |->
                [l \in 1..(zm.order + 1) |->
                    IF ValidNL(n - 1, l - 1)
                    THEN [k \in 1..(2 * l - 1) |->
                            CAdd(CMul(AB[1], ZMAt(zm, n - 1, l - 1, k - l)),
                                 CMul(AB[2], ZMAt(zm, n - 1, l - 1, l - k)))]
                         \o <<>>
                    ELSE <<>>] \o <<>>] \o <<>>]

\* one rotated moment set per candidate, stacked
calculate_zm_by_ab_rotation(ZMoment_raw, ABList) ==
    [order |-> ZMoment_raw.order,
     sets |-> [c \in 1..Len(ABList) |-> RotateBy(ZMoment_raw, ABList[c])] \o <<>>]

\* the mean across the candidates of their descriptors (over none: 0/0)
MeanOf(order, inv) ==
    [n \in 1..(order + 1) |->
        [l \in 1..(order + 1) |->
            FDiv(FSum([c \in 1..Len(inv) |-> inv[c][n][l]]), FromInt(Len(inv)))]
        \o <<>>] \o <<>>

\* spec 4.5, reduce: the invariant descriptor of each rotated set, and
\* their mean
get_mean_invariant(ZM) ==
    MeanOf(ZM.order,
           [c \in 1..Len(ZM.sets) |-> get_3dzd_121_descriptor(ZM.sets[c])] \o <<>>)

\* z.get_descriptor_property(): the fixed index and weight tables of the
\* comparator (spec 4.6)
get_descriptor_property ==
    [ZMIndex0 |-> <<0, 1, 4, 22>>,
     ZMIndex1 |-> <<121, 125>>,
     ZMIndex2 |-> <<242, 243>>,
     ZMIndex3 |-> <<363, 367>>,
     ZMIndex4 |-> <<484>>,
     ZMWeight0 |-> <<FromInt(1), FromRat(1, 2), FromInt(2), FromRat(3, 4)>>,
     ZMWeight1 |-> <<FromRat(1, 4), FromInt(1)>>,
     ZMWeight2 |-> <<FromRat(1, 2), FromRat(1, 8)>>,
     ZMWeight3 |-> <<FromInt(1), FromRat(1, 4)>>,
     ZMWeight4 |-> <<FromRat(3, 2)>>,
     GeoWeight |-> <<FromInt(1), FromRat(1, 2), FromInt(1), FromRat(1, 4),
                     FromInt(2), FromRat(1, 2), FromRat(1, 2)>>]

\* Param['residue_weight_map']
residue_weight_map == [GLY |-> FromInt(57), ALA |-> FromInt(71), TRP |-> FromInt(186)]

\* z.get_total_residue_weight
get_total_residue_weight(AA_NameList, weight_map) ==
    FSum([i \in 1..Len(AA_NameList) |-> weight_map[AA_NameList[i]]])

\* z.get_ca_distance_info: [Prctile_list, STD_XYZ_dist2center, S, K] of the
\* coordinates; a structure's coordinates are kept as these statistics
get_ca_distance_info(XYZ) == <<XYZ.Prctile_list, XYZ.STD, XYZ.S, XYZ.K>>

(***************************************************************************)
(* The input structures: what get_pdb_xyz_ca and                           *)
(* fill_voxel_by_weight_density give for a structure file.                 *)
(***************************************************************************)
\* a grid of two voxels along the first axis, with densities a and b
Grid(a, b) == << << <<FromInt(a)>> >>, << <<FromInt(b)>> >> >>

\* a structure with no residue in the box: all densities zero
EmptyStructure ==
    [Voxel3D |-> Grid(0, 0),
     XYZ |-> [Prctile_list |-> <<Zero, Zero>>, STD |-> Zero, S |-> Zero, K |-> Zero],
     AA_NameList |-> <<>>]

StructureP ==
    [Voxel3D |-> Grid(1, 1),
     XYZ |-> [Prctile_list |-> <<FromRat(3, 8), FromRat(9, 8)>>,
              STD |-> FromRat(17, 16), S |-> FromRat(5, 4), K |-> FromRat(9, 16)],
     AA_NameList |-> <<"GLY", "ALA">>]

StructureQ ==
    [Voxel3D |-> Grid(1, 2),
     XYZ |-> [Prctile_list |-> <<Zero, FromRat(27, 8)>>,
              STD |-> FromRat(5, 16), S |-> FromRat(15, 4), K |-> FromRat(7, 8)],
     AA_NameList |-> <<"GLY", "TRP">>]

Structures == {EmptyStructure, StructureP, StructureQ}

(***************************************************************************)
(* The comparator: the score cell of the shape-score notebook.             *)
(***************************************************************************)
\* MaxOrder = 20
MaxOrder == 20
\* the order literal of the two calls of OneTimeConversion_CP
CallOrder == 20
\* MaxTargetOrder2NormRotate=5
MaxTargetOrder2NormRotate == 5

\* the literals 6.6, 9.0 and 100.0
GeoRef == FromRat(66, 10)
ZMRef == FromInt(9)
Hundred == FromInt(100)

\* cp.vstack([P['ZMIndex0'], ..., P['ZMIndex4']])
StackIndex(P) ==
    Concatenate(<<P.ZMIndex0, P.ZMIndex1, P.ZMIndex2, P.ZMIndex3, P.ZMIndex4>>)
\* cp.vstack([P['ZMWeight0'], ..., P['ZMWeight4']])
StackWeight(P) ==
    Concatenate(<<P.ZMWeight0, P.ZMWeight1, P.ZMWeight2, P.ZMWeight3, P.ZMWeight4>>)

\* cp.sum(cp.abs(A[ZMIndex] - B[ZMIndex]) * ZMWeight)
WeightedAbsDiff(TA, TB, ZMWeight) ==
    FSum([i \in 1..Len(TA) |-> FMul(FAbs(FSub(TA[i], TB[i])), ZMWeight[i])])

\* cp.sum(cp.abs(A[ZMIndex] - B[ZMIndex])): the weights left out
ZMScoreUnweighted(A, B, ZMIndex, ZMWeight) ==
    FSum([i \in 1..Len(ZMIndex) |->
            FAbs(FSub(TakeAt(A, ZMIndex[i]), TakeAt(B, ZMIndex[i])))])

ZMScoreOf(A, B, ZMIndex, ZMWeight) ==
    WeightedAbsDiff(Take(A, ZMIndex), Take(B, ZMIndex), ZMWeight)

\* the relative difference with cp.abs(GA + GB) in the numerator
GeoScoreOfSum(GA, GB, GeoWeight) ==
    FSum([i \in 1..Len(GA) |->
            FMul(GeoWeight[i],
                 FDiv(FMul(FromInt(2), FAbs(FAdd(GA[i], GB[i]))),
                      FAdd(FAdd(FromInt(1), FAbs(GA[i])), FAbs(GB[i]))))])

\* the relative difference without the factor 2
GeoScoreUnscaled(GA, GB, GeoWeight) ==
    FSum([i \in 1..Len(GA) |->
            FMul(GeoWeight[i],
                 FDiv(FAbs(FSub(GA[i], GB[i])),
                      FAdd(FAdd(FromInt(1), FAbs(GA[i])), FAbs(GB[i]))))])

\* cp.sum(GeoWeight * (2 * cp.abs(GA - GB) / (1 + cp.abs(GA) + cp.abs(GB))))
GeoScoreOf(GA, GB, GeoWeight) ==
    FSum([i \in 1..Len(GA) |->
            FMul(GeoWeight[i],
                 FDiv(FMul(FromInt(2), FAbs(FSub(GA[i], GB[i]))),
                      FAdd(FAdd(FromInt(1), FAbs(GA[i])), FAbs(GB[i]))))])

\* (ref - raw) / raw * 100.0: the raw sum taken for the reference
RescaleByRaw(ref, raw) == FMul(FDiv(FSub(ref, raw), raw), Hundred)

\* (raw - ref) / ref * 100.0: the difference taken the other way round
RescaleAboveReference(ref, raw) == FMul(FDiv(FSub(raw, ref), ref), Hundred)

\* (ref - raw) / ref * 100.0
Rescale(ref, raw) == FMul(FDiv(FSub(ref, raw), ref), Hundred)

(***************************************************************************)
(* The state of the notebook: the position in the cells, the module        *)
(* namespace, the locals of the running call of OneTimeConversion_CP, and  *)
(* the exception that ended the cell run last, if any.                     *)
(***************************************************************************)
VARIABLES pc, ns, frame, raised

vars == <<pc, ns, frame, raised>>

NoNames == [x \in {} |-> 0]
Bind(env, name, v) == [x \in DOMAIN env \cup {name} |-> IF x = name THEN v ELSE env[x]]
Bound(env, name) == name \in DOMAIN env

\* ---- the statements of the conversion --------------------------------------
\* A statement is a function of the names f of the scope it runs in and of
\* the module names g, with the result [frame, pc, err].

Goes(f, p) == [frame |-> f, pc |-> p, err |-> ""]
Stops(err) == [frame |-> NoNames, pc |-> "failed", err |-> err]

\* Dimension_BBox_scaled and the unit lattice X_sample, Y_sample, Z_sample
S_UnitLattice(f) ==
    Goes(Bind(Bind(Bind(Bind(f, "Dimension_BBox_scaled", Shape(f["Voxel3D"])),
                        "X_sample", arange(Shape(f["Voxel3D"])[1] + 1)),
                   "Y_sample", arange(Shape(f["Voxel3D"])[2] + 1)),
              "Z_sample", arange(Shape(f["Voxel3D"])[3] + 1)),
         "fn_moment1")

\* [VolumeMass,Center,_]=...: the results bound, or the exception
S_FirstMomentResult(f, r) ==
    IF r.err # "" THEN Stops(r.err)
    ELSE Goes(Bind(Bind(f, "VolumeMass", r.VolumeMass), "Center", r.Center), "fn_radius")

\* [VolumeMass,Center,_]=z.calculate_bbox_moment(Voxel3D,1,...)
S_FirstMoment(f) ==
    S_FirstMomentResult(f, calculate_bbox_moment(f["Voxel3D"], 1, f["X_sample"],
                                                 f["Y_sample"], f["Z_sample"]))

\* [AverageVoxelDist2Center,MaxVoxelDist2Center]=...
S_RadiusResult(f, r) ==
    Goes(Bind(Bind(f, "AverageVoxelDist2Center", r[1]), "MaxVoxelDist2Center", r[2]),
         "fn_sphere")

\* ...=z.calculate_molecular_radius(Voxel3D,Center,VolumeMass,
\*                                  Param['default_radius_multiplier'])
S_Radius(f, g) ==
    S_RadiusResult(f, calculate_molecular_radius(f["Voxel3D"], f["Center"],
                          f["VolumeMass"], g["Param"].default_radius_multiplier))

\* Sphere_X_sample, Sphere_Y_sample, Sphere_Z_sample=...
S_SphereLatticeResult(f, r) ==
    Goes(Bind(Bind(Bind(f, "Sphere_X_sample", r[1]), "Sphere_Y_sample", r[2]),
              "Sphere_Z_sample", r[3]),
         "fn_moment2")

\* ...=z.get_bbox_moment_xyz_sample(Center,AverageVoxelDist2Center,
\*                                  Dimension_BBox_scaled)
S_SphereLattice(f) ==
    S_SphereLatticeResult(f, get_bbox_moment_xyz_sample(f["Center"],
                                 f["AverageVoxelDist2Center"], f["Dimension_BBox_scaled"]))

\* _,_,SphereBBoxMoment=...
S_SecondMomentResult(f, r) ==
    IF r.err # "" THEN Stops(r.err)
    ELSE Goes(Bind(f, "SphereBBoxMoment", r.Moment), "fn_zm")

\* _,_,SphereBBoxMoment=z.calculate_bbox_moment(Voxel3D,MaxOrder,Sphere_...)
S_SecondMoment(f) ==
    S_SecondMomentResult(f, calculate_bbox_moment(f["Voxel3D"], f["MaxOrder"],
                                f["Sphere_X_sample"], f["Sphere_Y_sample"],
                                f["Sphere_Z_sample"]))

\* ZMoment_scaled,ZMoment_raw=...
S_ZernikeResult(f, r) ==
    IF r.err # "" THEN Stops(r.err)
    ELSE Goes(Bind(Bind(f, "ZMoment_scaled", r.scaled), "ZMoment_raw", r.raw), "fn_direct")

\* ZMoment_scaled,ZMoment_raw=z.calculate_bbox_moment_2_zm(MaxOrder, caches, ...)
S_Zernike(f, g) ==
    S_ZernikeResult(f, calculate_bbox_moment_2_zm(f["MaxOrder"], g["GCache_complex"],
                           g["GCache_pqr_linear"], g["GCache_complex_index"],
                           g["CLMCache3D"], f["SphereBBoxMoment"]))

\* ZMList=[]; ZM_3DZD_invariant=...; ZMList.append(ZM_3DZD_invariant);
\* MaxTargetOrder2NormRotate=5
S_DirectResult(f, inv) ==
    Goes(Bind(Bind(Bind(f, "ZM_3DZD_invariant", inv), "ZMList", <<inv>>),
              "MaxTargetOrder2NormRotate", MaxTargetOrder2NormRotate),
         "fn_for")

\* ZM_3DZD_invariant=z.get_3dzd_121_descriptor(ZMoment_scaled)
S_Direct(f) == S_DirectResult(f, get_3dzd_121_descriptor(f["ZMoment_scaled"]))

\* the next target order bound, or the loop left
S_ForNext(f, nxt) ==
    IF nxt < f["MaxTargetOrder2NormRotate"] + 1
    THEN Goes(Bind(f, "TargetOrder2NormRotate", nxt), "fn_ab")
    ELSE Goes(f, "fn_concat")

\* for TargetOrder2NormRotate in range(2, MaxTargetOrder2NormRotate+1)
S_For(f) ==
    S_ForNext(f, IF Bound(f, "TargetOrder2NormRotate")
                 THEN f["TargetOrder2NormRotate"] + 1 ELSE 2)

\* ABList = z.calculate_ab_rotation(ZMoment_raw.get(), TargetOrder2NormRotate)
S_Candidates(f) ==
    Goes(Bind(f, "ABList",
              calculate_ab_rotation(f["ZMoment_raw"], f["TargetOrder2NormRotate"])),
         "fn_rot")

\* ZM = z.calculate_zm_by_ab_rotation(ZMoment_raw, BinomialCache, ABList, ...)
S_Rotate(f) ==
    Goes(Bind(f, "ZM", calculate_zm_by_ab_rotation(f["ZMoment_raw"], f["ABList"])),
         "fn_mean")

\* ZM_mean, _ = ...; ZMList.append(ZM_mean)
S_MeanResult(f, ZM_mean) ==
    Goes(Bind(Bind(f, "ZM_mean", ZM_mean), "ZMList", Append(f["ZMList"], ZM_mean)),
         "fn_for")

\* ZM_mean, _ = z.get_mean_invariant(ZM)
S_Mean(f) == S_MeanResult(f, get_mean_invariant(f["ZM"]))

\* MomentInvariant = cp.concatenate([z[~cp.isnan(z)] for z in ZMList])
S_Concat(f) ==
    Goes(Bind(f, "MomentInvariant",
              Concatenate([i \in 1..Len(f["ZMList"]) |-> MaskNotNan(f["ZMList"][i])])),
         "fn_geo")

\* TotalResidueWeight and [Prctile_list,STD_XYZ_dist2center,S,K]
S_GeoResult(f, TotalResidueWeight, ca) ==
    Goes(Bind(Bind(Bind(Bind(Bind(f, "TotalResidueWeight", TotalResidueWeight),
                             "Prctile_list", ca[1]),
                        "STD_XYZ_dist2center", ca[2]),
                   "S", ca[3]),
              "K", ca[4]),
         "fn_stack")

\* TotalResidueWeight=z.get_total_residue_weight(AA_NameList,
\*     Param['residue_weight_map']); ...=z.get_ca_distance_info(XYZ)
S_Geo(f, g) ==
    S_GeoResult(f, get_total_residue_weight(f["AA_NameList"], g["Param"].residue_weight_map),
                get_ca_distance_info(f["XYZ"]))

\* GeoDescriptor = cp.vstack((AverageVoxelDist2Center, TotalResidueWeight,
\*                            Prctile_list, STD_XYZ_dist2center, S, K))
S_Stack(f) ==
    Goes(Bind(f, "GeoDescriptor",
              Concatenate(<< <<f["AverageVoxelDist2Center"]>>, <<f["TotalResidueWeight"]>>,
                             f["Prctile_list"], <<f["STD_XYZ_dist2center"]>>,
                             <<f["S"]>>, <<f["K"]>> >>)),
         "fn_return")

\* the statement at position p of the conversion
ScoreStep(p, f, g) ==
    CASE p = "fn_shape" -> S_UnitLattice(f)
      [] p = "fn_moment1" -> S_FirstMoment(f)
      [] p = "fn_radius" -> S_Radius(f, g)
      [] p = "fn_sphere" -> S_SphereLattice(f)
      [] p = "fn_moment2" -> S_SecondMoment(f)
      [] p = "fn_zm" -> S_Zernike(f, g)
      [] p = "fn_direct" -> S_Direct(f)
      [] p = "fn_for" -> S_For(f)
      [] p = "fn_ab" -> S_Candidates(f)
      [] p = "fn_rot" -> S_Rotate(f)
      [] p = "fn_mean" -> S_Mean(f)
      [] p = "fn_concat" -> S_Concat(f)
      [] p = "fn_geo" -> S_Geo(f, g)
      [] p = "fn_stack" -> S_Stack(f)

Init ==
    /\ pc = "cache"
    /\ ns = NoNames
    /\ frame = NoNames
    /\ raised = ""

\* MaxOrder = 20; Param=z.get_global_parameter(): the names bound before the
\* first file is opened
CacheParameters ==
    [x \in {"MaxOrder", "Param"} |->
       IF x = "MaxOrder" THEN MaxOrder
       ELSE [default_radius_multiplier |-> default_radius_multiplier,
             residue_weight_map |-> residue_weight_map]]

\* the names the cell binds from the two files, in the order of its lines:
\* BinomialCache, the keys of the bundle, and the arrays taken out of
\* RotationIndex (s_id, n, l, m, mu, k, IsNLM_Value)
BundleKeys ==
    <<"BinomialCache", "GCache_pqr_linear", "GCache_complex", "GCache_complex_index",
      "CLMCache3D", "CLMCache", "RotationIndex", "s_id", "n", "l", "m", "mu", "k",
      "IsNLM_Value">>

RotationFields == {"s_id", "n", "l", "m", "mu", "k", "IsNLM_Value"}
RotationField(x) == [table |-> "RotationIndex", field |-> x, order |-> MaxOrder]

\* the names the cache cell binds
LoadedCache ==
    [x \in {"MaxOrder", "Param"} \cup {BundleKeys[i] : i \in 1..Len(BundleKeys)} |->
       CASE x \in DOMAIN CacheParameters -> CacheParameters[x]
         [] x = "BinomialCache" -> BinomialTable
         [] x \in RotationFields -> RotationField(x)
         [] OTHER -> CacheTable(x, MaxOrder)]

\* the names bound when the file read for name number j lacks its key: the
\* subscript raises before the assignment, the names before it stay bound
LoadedUpTo(j) ==
    [x \in {"MaxOrder", "Param"} \cup {BundleKeys[i] : i \in 1..(j - 1)} |-> LoadedCache[x]]

\* the cell ended by the exception err with the names g bound
CacheCellFails(g, err) ==
    /\ ns' = g
    /\ raised' = err
    /\ pc' = "failed"
    /\ UNCHANGED frame

\* the first cell: MaxOrder, Param and the coefficient tables of the bundle
\* generated for MaxOrder; open() raises when BinomialCache.pkl or the bundle
\* of MaxOrder is not in cache_data, and the subscript of a loaded file when
\* a key is missing
LoadCache ==
    /\ pc = "cache"
    /\ \/ /\ ns' = LoadedCache
          /\ pc' = "pdb"
          /\ UNCHANGED <<frame, raised>>
       \/ CacheCellFails(CacheParameters, "FileNotFoundError")
       \/ \E j \in 1..Len(BundleKeys) : CacheCellFails(LoadedUpTo(j), "KeyError")

\* [XYZ,AA_NameList]=z.get_pdb_xyz_ca('./1WAC_A.txt') and the voxel grid
\* filled from it
WithFirstStructure(g, s) ==
    Bind(Bind(Bind(g, "XYZ", s.XYZ), "AA_NameList", s.AA_NameList), "Voxel3D", s.Voxel3D)

\* the cell that reads ./1WAC_A.txt
LoadFirstStructure ==
    /\ pc = "pdb"
    /\ \E s \in Structures : ns' = WithFirstStructure(ns, s)
    /\ pc' = "walk"
    /\ UNCHANGED <<frame, raised>>

\* the statements from position p on, run at module level: every name is
\* bound in, and read from, the module namespace g; an exception ends the
\* cell with the names bound so far
RECURSIVE ModuleRun(_, _)
ModuleStep(r, g) ==
    IF r.err # "" THEN [ns |-> g, err |-> r.err]
    ELSE IF r.pc = "fn_return" THEN [ns |-> r.frame, err |-> ""]
    ELSE ModuleRun(r.pc, r.frame)
ModuleRun(p, g) == ModuleStep(ScoreStep(p, g, g), g)

\* the outcome r of the cell that runs the conversion on the first structure:
\* the cell starts with %%time, which shows the traceback of an exception and
\* ends the cell with the names bound so far; the cell of the def statement
\* runs next either way
WalkOutcome(r) ==
    /\ ns' = r.ns
    /\ raised' = r.err
    /\ pc' = "def"
    /\ UNCHANGED frame

\* the cell that runs the statements of the conversion, one by one, on the
\* grid of ./1WAC_A.txt, before the function is defined
WalkThrough ==
    /\ pc = "walk"
    /\ WalkOutcome(ModuleRun("fn_shape", ns))

\* def OneTimeConversion_CP(XYZ,AA_NameList,Voxel3D,MaxOrder): the cell of
\* the def statement completes, whatever the cell before it did
DefConversion ==
    /\ pc = "def"
    /\ ns' = Bind(ns, "OneTimeConversion_CP", "function")
    /\ pc' = "tables"
    /\ raised' = ""
    /\ UNCHANGED frame

\* P=z.get_descriptor_property(); ZMIndex and ZMWeight stacked from it
WithDescriptorProperty(g) ==
    Bind(Bind(Bind(g, "P", get_descriptor_property),
              "ZMIndex", StackIndex(get_descriptor_property)),
         "ZMWeight", StackWeight(get_descriptor_property))

\* P, ZMIndex and ZMWeight
GetDescriptorProperty ==
    /\ pc = "tables"
    /\ ns' = WithDescriptorProperty(ns)
    /\ pc' = "load_A"
    /\ UNCHANGED <<frame, raised>>

\* the coordinates, residue names and voxel grid of a structure file
WithStructure(g, w, s) ==
    Bind(Bind(Bind(g, "XYZ_" \o w, s.XYZ), "AA_NameList_" \o w, s.AA_NameList),
         "Voxel3D_" \o w, s.Voxel3D)

\* the structure s loaded for the side w of the comparison
LoadStructure(w, s) == WithStructure(ns, w, s)

\* ./1WAC_A.txt read again: the structure the first cells read
LoadA ==
    /\ pc = "load_A"
    /\ ns' = LoadStructure("A", [XYZ |-> ns["XYZ"], AA_NameList |-> ns["AA_NameList"],
                                 Voxel3D |-> ns["Voxel3D"]])
    /\ pc' = "load_B"
    /\ UNCHANGED <<frame, raised>>

LoadB ==
    /\ pc = "load_B"
    /\ \E s \in Structures : ns' = LoadStructure("B", s)
    /\ pc' = "call_A"
    /\ UNCHANGED <<frame, raised>>

\* the conversion called with half the order of the loaded bundle
CallWithHalfOrder(w) ==
    /\ pc = "call_" \o w
    /\ frame' = [x \in {"ret", "XYZ", "AA_NameList", "Voxel3D", "MaxOrder"} |->
                    CASE x = "ret" -> w
                      [] x = "MaxOrder" -> CallOrder \div 2
                      [] OTHER -> ns[x \o "_" \o w]]
    /\ pc' = "fn_shape"
    /\ UNCHANGED <<ns, raised>>

\* OneTimeConversion_CP(XYZ_w, AA_NameList_w, Voxel3D_w, 20): the arguments
\* bound in a new frame
Call(w) ==
    /\ pc = "call_" \o w
    /\ frame' = [x \in {"ret", "XYZ", "AA_NameList", "Voxel3D", "MaxOrder"} |->
                    CASE x = "ret" -> w
                      [] x = "MaxOrder" -> CallOrder
                      [] OTHER -> ns[x \o "_" \o w]]
    /\ pc' = "fn_shape"
    /\ UNCHANGED <<ns, raised>>

\* an exception leaves the function and ends the cell of the two calls, whose
\* %%time shows the traceback: the statements after the call do not run, and
\* the one cell left is a shell command that binds no name
Raise(err) ==
    /\ raised' = err
    /\ frame' = NoNames
    /\ pc' = "failed"
    /\ UNCHANGED ns

\* Dimension_BBox_scaled and the unit lattice X_sample, Y_sample, Z_sample
UnitLatticeOf(D) ==
    Bind(Bind(Bind(Bind(frame, "Dimension_BBox_scaled", D),
                   "X_sample", arange(D[1] + 1)),
              "Y_sample", arange(D[2] + 1)),
         "Z_sample", arange(D[3] + 1))

UnitLattice ==
    /\ pc = "fn_shape"
    /\ frame' = UnitLatticeOf(Shape(frame["Voxel3D"]))
    /\ pc' = "fn_moment1"
    /\ UNCHANGED <<ns, raised>>

\* the first pass with its failure swallowed: the results bound whatever r is
FirstMomentUnchecked(r) ==
    /\ frame' = Bind(Bind(frame, "VolumeMass", r.VolumeMass), "Center", r.Center)
    /\ pc' = "fn_radius"
    /\ UNCHANGED <<ns, raised>>

\* [VolumeMass,Center,_]=z.calculate_bbox_moment(Voxel3D,1,...)
FirstMomentResult(r) ==
    IF r.err # "" THEN Raise(r.err)
    ELSE /\ frame' = Bind(Bind(frame, "VolumeMass", r.VolumeMass), "Center", r.Center)
         /\ pc' = "fn_radius"
         /\ UNCHANGED <<ns, raised>>

FirstMomentPass ==
    /\ pc = "fn_moment1"
    /\ FirstMomentResult(calculate_bbox_moment(frame["Voxel3D"], 1, frame["X_sample"],
                                               frame["Y_sample"], frame["Z_sample"]))

\* [AverageVoxelDist2Center,MaxVoxelDist2Center]=z.calculate_molecular_radius(...)
MolecularRadiusResult(r) ==
    Bind(Bind(frame, "AverageVoxelDist2Center", r[1]), "MaxVoxelDist2Center", r[2])

MolecularRadius ==
    /\ pc = "fn_radius"
    /\ frame' = MolecularRadiusResult(
                    calculate_molecular_radius(frame["Voxel3D"], frame["Center"],
                        frame["VolumeMass"], ns["Param"].default_radius_multiplier))
    /\ pc' = "fn_sphere"
    /\ UNCHANGED <<ns, raised>>

\* Sphere_X_sample, Sphere_Y_sample, Sphere_Z_sample=z.get_bbox_moment_xyz_sample(...)
SphereLatticeResult(r) ==
    Bind(Bind(Bind(frame, "Sphere_X_sample", r[1]), "Sphere_Y_sample", r[2]),
         "Sphere_Z_sample", r[3])

SphereLattice ==
    /\ pc = "fn_sphere"
    /\ frame' = SphereLatticeResult(
                    get_bbox_moment_xyz_sample(frame["Center"],
                        frame["AverageVoxelDist2Center"], frame["Dimension_BBox_scaled"]))
    /\ pc' = "fn_moment2"
    /\ UNCHANGED <<ns, raised>>

\* _,_,SphereBBoxMoment=z.calculate_bbox_moment(Voxel3D,MaxOrder,Sphere_...)
SecondMomentResult(r) ==
    IF r.err # "" THEN Raise(r.err)
    ELSE /\ frame' = Bind(frame, "SphereBBoxMoment", r.Moment)
         /\ pc' = "fn_zm"
         /\ UNCHANGED <<ns, raised>>

SecondMomentPass ==
    /\ pc = "fn_moment2"
    /\ SecondMomentResult(
           calculate_bbox_moment(frame["Voxel3D"], frame["MaxOrder"],
               frame["Sphere_X_sample"], frame["Sphere_Y_sample"],
               frame["Sphere_Z_sample"]))

\* ZMoment_scaled,ZMoment_raw=z.calculate_bbox_moment_2_zm(MaxOrder, caches, ...)
ZernikeTransformResult(r) ==
    IF r.err # "" THEN Raise(r.err)
    ELSE /\ frame' = Bind(Bind(frame, "ZMoment_scaled", r.scaled), "ZMoment_raw", r.raw)
         /\ pc' = "fn_direct"
         /\ UNCHANGED <<ns, raised>>

ZernikeTransform ==
    /\ pc = "fn_zm"
    /\ ZernikeTransformResult(
           calculate_bbox_moment_2_zm(frame["MaxOrder"], ns["GCache_complex"],
               ns["GCache_pqr_linear"], ns["GCache_complex_index"],
               ns["CLMCache3D"], frame["SphereBBoxMoment"]))

\* ZMList=[]; ZM_3DZD_invariant=z.get_3dzd_121_descriptor(ZMoment_scaled);
\* ZMList.append(ZM_3DZD_invariant); MaxTargetOrder2NormRotate=5
DirectInvariantResult(inv) ==
    Bind(Bind(Bind(frame, "ZM_3DZD_invariant", inv), "ZMList", <<inv>>),
         "MaxTargetOrder2NormRotate", MaxTargetOrder2NormRotate)

\* the direct descriptor taken from the raw moments
DirectInvariantFromRaw ==
    /\ pc = "fn_direct"
    /\ frame' = DirectInvariantResult(get_3dzd_121_descriptor(frame["ZMoment_raw"]))
    /\ pc' = "fn_for"
    /\ UNCHANGED <<ns, raised>>

DirectInvariant ==
    /\ pc = "fn_direct"
    /\ frame' = DirectInvariantResult(get_3dzd_121_descriptor(frame["ZMoment_scaled"]))
    /\ pc' = "fn_for"
    /\ UNCHANGED <<ns, raised>>

\* range(2, MaxTargetOrder2NormRotate): the last target order left out
ForNextExclusive(nxt) ==
    IF nxt < frame["MaxTargetOrder2NormRotate"]
    THEN /\ frame' = Bind(frame, "TargetOrder2NormRotate", nxt)
         /\ pc' = "fn_ab"
    ELSE /\ frame' = frame
         /\ pc' = "fn_concat"

\* for TargetOrder2NormRotate in range(2, MaxTargetOrder2NormRotate+1)
ForNext(nxt) ==
    IF nxt < frame["MaxTargetOrder2NormRotate"] + 1
    THEN /\ frame' = Bind(frame, "TargetOrder2NormRotate", nxt)
         /\ pc' = "fn_ab"
    ELSE /\ frame' = frame
         /\ pc' = "fn_concat"

ForTargetOrder ==
    /\ pc = "fn_for"
    /\ ForNext(IF Bound(frame, "TargetOrder2NormRotate")
               THEN frame["TargetOrder2NormRotate"] + 1 ELSE 2)
    /\ UNCHANGED <<ns, raised>>

\* ABList = z.calculate_ab_rotation(ZMoment_raw.get(), TargetOrder2NormRotate)
RotationCandidates ==
    /\ pc = "fn_ab"
    /\ frame' = Bind(frame, "ABList",
                     calculate_ab_rotation(frame["ZMoment_raw"],
                                           frame["TargetOrder2NormRotate"]))
    /\ pc' = "fn_rot"
    /\ UNCHANGED <<ns, raised>>

\* ZM = z.calculate_zm_by_ab_rotation(ZMoment_raw, BinomialCache, ABList, ...)
ApplyRotation ==
    /\ pc = "fn_rot"
    /\ frame' = Bind(frame, "ZM",
                     calculate_zm_by_ab_rotation(frame["ZMoment_raw"], frame["ABList"]))
    /\ pc' = "fn_mean"
    /\ UNCHANGED <<ns, raised>>

\* ZM_mean, _ = z.get_mean_invariant(ZM); ZMList.append(ZM_mean)
MeanInvariantResult(ZM_mean) ==
    Bind(Bind(frame, "ZM_mean", ZM_mean), "ZMList", Append(frame["ZMList"], ZM_mean))

MeanInvariant ==
    /\ pc = "fn_mean"
    /\ frame' = MeanInvariantResult(get_mean_invariant(frame["ZM"]))
    /\ pc' = "fn_for"
    /\ UNCHANGED <<ns, raised>>

\* the descriptors concatenated whole, the NaN cells with the rest
ConcatUnfiltered ==
    /\ pc = "fn_concat"
    /\ frame' = Bind(frame, "MomentInvariant",
                     Concatenate([i \in 1..Len(frame["ZMList"]) |->
                                     Flatten(frame["ZMList"][i])]))
    /\ pc' = "fn_geo"
    /\ UNCHANGED <<ns, raised>>

\* MomentInvariant = cp.concatenate([z[~cp.isnan(z)] for z in ZMList])
ConcatInvariants ==
    /\ pc = "fn_concat"
    /\ frame' = Bind(frame, "MomentInvariant",
                     Concatenate([i \in 1..Len(frame["ZMList"]) |->
                                     MaskNotNan(frame["ZMList"][i])]))
    /\ pc' = "fn_geo"
    /\ UNCHANGED <<ns, raised>>

\* TotalResidueWeight and [Prctile_list,STD_XYZ_dist2center,S,K]
GeoInfoResult(TotalResidueWeight, ca) ==
    Bind(Bind(Bind(Bind(Bind(frame, "TotalResidueWeight", TotalResidueWeight),
                        "Prctile_list", ca[1]),
                   "STD_XYZ_dist2center", ca[2]),
              "S", ca[3]),
         "K", ca[4])

GeoInfo ==
    /\ pc = "fn_geo"
    /\ frame' = GeoInfoResult(
                    get_total_residue_weight(frame["AA_NameList"],
                                             ns["Param"].residue_weight_map),
                    get_ca_distance_info(frame["XYZ"]))
    /\ pc' = "fn_stack"
    /\ UNCHANGED <<ns, raised>>

\* GeoDescriptor = cp.vstack((AverageVoxelDist2Center, TotalResidueWeight,
\*                            Prctile_list, STD_XYZ_dist2center, S, K))
StackGeo ==
    /\ pc = "fn_stack"
    /\ frame' = Bind(frame, "GeoDescriptor",
                     Concatenate(<< <<frame["AverageVoxelDist2Center"]>>,
                                    <<frame["TotalResidueWeight"]>>,
                                    frame["Prctile_list"],
                                    <<frame["STD_XYZ_dist2center"]>>,
                                    <<frame["S"]>>,
                                    <<frame["K"]>> >>))
    /\ pc' = "fn_return"
    /\ UNCHANGED <<ns, raised>>

\* return MomentInvariant, GeoDescriptor, assigned by the caller to
\* MomentInvariantRaw<w>, GeoDescriptor<w>
Return ==
    /\ pc = "fn_return"
    /\ ns' = Bind(Bind(ns, "MomentInvariantRaw" \o frame["ret"], frame["MomentInvariant"]),
                  "GeoDescriptor" \o frame["ret"], frame["GeoDescriptor"])
    /\ pc' = IF frame["ret"] = "A" THEN "call_B" ELSE "zmscore"
    /\ frame' = NoNames
    /\ UNCHANGED raised

\* ZMScore = cp.sum(cp.abs(A[ZMIndex] - B[ZMIndex]) * ZMWeight)
ComputeZMScore ==
    /\ pc = "zmscore"
    /\ ns' = Bind(ns, "ZMScore",
                  ZMScoreOf(ns["MomentInvariantRawA"], ns["MomentInvariantRawB"],
                            ns["ZMIndex"], ns["ZMWeight"]))
    /\ pc' = "geoscore"
    /\ UNCHANGED <<frame, raised>>

\* GeoScore = cp.sum(cp.asarray(P['GeoWeight']) * (2 * ... / (1 + ... + ...)))
ComputeGeoScore ==
    /\ pc = "geoscore"
    /\ ns' = Bind(ns, "GeoScore",
                  GeoScoreOf(ns["GeoDescriptorA"], ns["GeoDescriptorB"],
                             ns["P"].GeoWeight))
    /\ pc' = "rescale"
    /\ UNCHANGED <<frame, raised>>

\* GeoScoreScaled = (6.6 - GeoScore) / 6.6 * 100.0
\* ZMScoreScaled = (9.0 - ZMScore) / 9.0 * 100.0
RescaleScores ==
    /\ pc = "rescale"
    /\ ns' = Bind(Bind(ns, "GeoScoreScaled", Rescale(GeoRef, ns["GeoScore"])),
                  "ZMScoreScaled", Rescale(ZMRef, ns["ZMScore"]))
    /\ pc' = "done"
    /\ UNCHANGED <<frame, raised>>

Next ==
    \/ LoadCache
    \/ LoadFirstStructure
    \/ WalkThrough
    \/ DefConversion
    \/ GetDescriptorProperty
    \/ LoadA
    \/ LoadB
    \/ Call("A")
    \/ Call("B")
    \/ UnitLattice
    \/ FirstMomentPass
    \/ MolecularRadius
    \/ SphereLattice
    \/ SecondMomentPass
    \/ ZernikeTransform
    \/ DirectInvariant
    \/ ForTargetOrder
    \/ RotationCandidates
    \/ ApplyRotation
    \/ MeanInvariant
    \/ ConcatInvariants
    \/ GeoInfo
    \/ StackGeo
    \/ Return
    \/ ComputeZMScore
    \/ ComputeGeoScore
    \/ RescaleScores

Spec == Init /\ [][Next]_vars

(***************************************************************************)
(* The timing notebook: three backends (TensorFlow, CuPy, NumPy), each     *)
(* with a cell that loads the coefficient bundle, a cell that defines the  *)
(* conversion and a cell that invokes it Repeat times on a random grid.    *)
(*                                                                         *)
(* A stage of a conversion is a function of the locals f of the invocation *)
(* and of the module-level names g it reads; its result is                 *)
(* [frame, err]: the locals after the stage, or the exception it raised.   *)
(***************************************************************************)
\* the iteration count of the benchmark loops
Repeat == 2

\* MaxOrder = 20 of the three cache cells
TimingMaxOrder == 20

Done(f) == [frame |-> f, err |-> ""]
Failed(f, err) == [frame |-> f, err |-> err]

\* import ZMPY3D_TF as z / import ZMPY3D_CP as z / import ZMPY3D as z
LibraryOf(b) == CASE b = "TF" -> "ZMPY3D_TF" [] b = "CP" -> "ZMPY3D_CP" [] OTHER -> "ZMPY3D"

\* tf.convert_to_tensor / cp.array / the unpickled array itself
ArrayKind(b) ==
    CASE b = "TF" -> "tf.Tensor" [] b = "CP" -> "cupy.ndarray" [] OTHER -> "numpy.ndarray"

\* a table of the bundle for an order, as an array of the backend
BackendTable(b, name, order) == [table |-> name, order |-> order, kind |-> ArrayKind(b)]

\* the names a cache cell binds from the bundle
BundleNames ==
    {"GCache_pqr_linear", "GCache_complex", "GCache_complex_index", "CLMCache3D",
     "CLMCache"}

\* the side of the random grid, for the 100 of the notebook; the grid of
\* 100 x 100 x 100 is cut down to GridLength x 1 x 1
GridLength == 2

\* tf.random.uniform / cp.random.rand / np.random.rand: densities in [0, 1),
\* a/4 in the first voxel and b/4 in the others
UniformGrid(a, b) ==
    [i \in 1..GridLength |-> << <<FromRat(IF i = 1 THEN a ELSE b, 4)>> >>] \o <<>>

\* the densities a draw is told apart by, in quarters
Densities == {0, 1, 3}

\* the draws: every pair of densities, the all-zero grid among them
TimingGrids == {UniformGrid(a, b) : a \in Densities, b \in Densities}

\* ---- OneTimeConversion_TF ------------------------------------------------

\* Dimension_BBox_scaled=tf.shape(Voxel3D); MaxOrder=tf.convert_to_tensor(..);
\* X_sample, Y_sample, Z_sample = tf.range(Dimension_BBox_scaled[k] + 1)
UnitLattice_TF(f) ==
    Done(Bind(Bind(Bind(Bind(Bind(f, "Dimension_BBox_scaled", Shape(f["Voxel3D"])),
                             "MaxOrder", f["MaxOrder"]),
                        "X_sample", arange(Shape(f["Voxel3D"])[1] + 1)),
                   "Y_sample", arange(Shape(f["Voxel3D"])[2] + 1)),
              "Z_sample", arange(Shape(f["Voxel3D"])[3] + 1)))

\* [VolumeMass,Center,_]=...: the three results bound, or the exception
BindFirstMoment(f, r) ==
    IF r.err # "" THEN Failed(f, r.err)
    ELSE Done(Bind(Bind(Bind(f, "VolumeMass", r.VolumeMass), "Center", r.Center),
                   "_", r.Moment))

\* [VolumeMass,Center,_]=z.calculate_bbox_moment(Voxel3D,1,X_sample,Y_sample,Z_sample)
FirstMoment_TF(f) ==
    BindFirstMoment(f, calculate_bbox_moment(f["Voxel3D"], 1, f["X_sample"],
                                             f["Y_sample"], f["Z_sample"]))

\* [AverageVoxelDist2Center,_]=...
BindRadius(f, r) == Done(Bind(Bind(f, "AverageVoxelDist2Center", r[1]), "_", r[2]))

\* [AverageVoxelDist2Center,_]=z.calculate_molecular_radius(Voxel3D,Center,
\*     VolumeMass,tf.convert_to_tensor(Param['default_radius_multiplier']))
Radius_TF(f, g) ==
    BindRadius(f, calculate_molecular_radius(f["Voxel3D"], f["Center"], f["VolumeMass"],
                                             g["Param"].default_radius_multiplier))

\* Sphere_X_sample, Sphere_Y_sample, Sphere_Z_sample=...
BindSphereLattice(f, r) ==
    Done(Bind(Bind(Bind(f, "Sphere_X_sample", r[1]), "Sphere_Y_sample", r[2]),
              "Sphere_Z_sample", r[3]))

\* ...=z.get_bbox_moment_xyz_sample(Center,AverageVoxelDist2Center,
\*                                  Dimension_BBox_scaled)
SphereLattice_TF(f) ==
    BindSphereLattice(f, get_bbox_moment_xyz_sample(f["Center"],
                             f["AverageVoxelDist2Center"], f["Dimension_BBox_scaled"]))

\* _,_,SphereBBoxMoment=...: the last of the two _ stays bound
BindSecondMoment(f, r) ==
    IF r.err # "" THEN Failed(f, r.err)
    ELSE Done(Bind(Bind(f, "_", r.Center), "SphereBBoxMoment", r.Moment))

\* the second pass on the unit lattice instead of the sphere-rescaled one
SecondMomentOnUnitLattice_TF(f) ==
    BindSecondMoment(f, calculate_bbox_moment(f["Voxel3D"], f["MaxOrder"],
                            f["X_sample"], f["Y_sample"], f["Z_sample"]))

\* _,_,SphereBBoxMoment=z.calculate_bbox_moment(Voxel3D,MaxOrder,Sphere_X_sample,
\*                                              Sphere_Y_sample,Sphere_Z_sample)
SecondMoment_TF(f) ==
    BindSecondMoment(f, calculate_bbox_moment(f["Voxel3D"], f["MaxOrder"],
                            f["Sphere_X_sample"], f["Sphere_Y_sample"],
                            f["Sphere_Z_sample"]))

\* ZMoment_scaled,_=...
BindZernike(f, r) ==
    IF r.err # "" THEN Failed(f, r.err)
    ELSE Done(Bind(Bind(f, "ZMoment_scaled", r.scaled), "_", r.raw))

\* ZMoment_scaled,_=z.calculate_bbox_moment_2_zm(MaxOrder,GCache_complex,
\*     GCache_pqr_linear,GCache_complex_index,CLMCache3D,SphereBBoxMoment)
Zernike_TF(f, g) ==
    BindZernike(f, calculate_bbox_moment_2_zm(f["MaxOrder"], g["GCache_complex"],
                       g["GCache_pqr_linear"], g["GCache_complex_index"],
                       g["CLMCache3D"], f["SphereBBoxMoment"]))

\* ZM_3DZD_invariant=z.get_3dzd_121_descriptor(ZMoment_scaled)
Direct_TF(f) ==
    Done(Bind(f, "ZM_3DZD_invariant", get_3dzd_121_descriptor(f["ZMoment_scaled"])))

\* ~tf.math.is_nan(t), elementwise on a two-dimensional tensor
NotNanMask(t) == [n \in 1..Len(t) |-> [l \in 1..Len(t[n]) |-> ~isnan(t[n][l])] \o <<>>] \o <<>>

\* the elements of v at the positions idx
PickAt(v, idx) == [j \in 1..Len(idx) |-> v[idx[j]]] \o <<>>

\* the elements of v where the flat mask k is true, in order
PickWhere(v, k) == PickAt(v, SelectSeq([i \in 1..Len(v) |-> i] \o <<>>, LAMBDA i : k[i]))

\* tf.boolean_mask(t, mask) for a mask of the shape of t: the elements under
\* a true, row-major, as a vector
boolean_mask(t, mask) == PickWhere(Flatten(t), Flatten(mask))

\* tf.reshape(v, [-1]) of a vector
ReshapeFlat(v) == v

\* ZM_3DZD_invariant_121=tf.reshape(tf.boolean_mask(ZM_3DZD_invariant,
\*     ~tf.math.is_nan(ZM_3DZD_invariant)), [-1])
Mask_TF(f) ==
    Done(Bind(f, "ZM_3DZD_invariant_121",
              ReshapeFlat(boolean_mask(f["ZM_3DZD_invariant"],
                                       NotNanMask(f["ZM_3DZD_invariant"])))))

\* ---- OneTimeConversion_CP ------------------------------------------------

\* Dimension_BBox_scaled=cp.shape(Voxel3D), as an int32 array;
\* MaxOrder=cp.array(MaxOrder); X_sample, Y_sample, Z_sample = cp.arange(..)
UnitLattice_CP(f) ==
    Done(Bind(Bind(Bind(Bind(Bind(f, "Dimension_BBox_scaled", Shape(f["Voxel3D"])),
                             "MaxOrder", f["MaxOrder"]),
                        "X_sample", arange(Shape(f["Voxel3D"])[1] + 1)),
                   "Y_sample", arange(Shape(f["Voxel3D"])[2] + 1)),
              "Z_sample", arange(Shape(f["Voxel3D"])[3] + 1)))

\* [VolumeMass,Center,_]=z.calculate_bbox_moment(Voxel3D,1,X_sample,Y_sample,Z_sample)
FirstMoment_CP(f) ==
    BindFirstMoment(f, calculate_bbox_moment(f["Voxel3D"], 1, f["X_sample"],
                                             f["Y_sample"], f["Z_sample"]))

\* [AverageVoxelDist2Center,_]=z.calculate_molecular_radius(Voxel3D,Center,
\*     VolumeMass,cp.array(Param['default_radius_multiplier']))
Radius_CP(f, g) ==
    BindRadius(f, calculate_molecular_radius(f["Voxel3D"], f["Center"], f["VolumeMass"],
                                             g["Param"].default_radius_multiplier))

\* Sphere_X_sample, Sphere_Y_sample, Sphere_Z_sample=z.get_bbox_moment_xyz_sample(..)
SphereLattice_CP(f) ==
    BindSphereLattice(f, get_bbox_moment_xyz_sample(f["Center"],
                             f["AverageVoxelDist2Center"], f["Dimension_BBox_scaled"]))

\* _,_,SphereBBoxMoment=z.calculate_bbox_moment(Voxel3D,MaxOrder,Sphere_X_sample,..)
SecondMoment_CP(f) ==
    BindSecondMoment(f, calculate_bbox_moment(f["Voxel3D"], f["MaxOrder"],
                            f["Sphere_X_sample"], f["Sphere_Y_sample"],
                            f["Sphere_Z_sample"]))

\* ZMoment_scaled,_=z.calculate_bbox_moment_2_zm(MaxOrder,GCache_complex,..)
Zernike_CP(f, g) ==
    BindZernike(f, calculate_bbox_moment_2_zm(f["MaxOrder"], g["GCache_complex"],
                       g["GCache_pqr_linear"], g["GCache_complex_index"],
                       g["CLMCache3D"], f["SphereBBoxMoment"]))

\* ZM_3DZD_invariant=z.get_3dzd_121_descriptor(ZMoment_scaled)
Direct_CP(f) ==
    Done(Bind(f, "ZM_3DZD_invariant", get_3dzd_121_descriptor(f["ZMoment_scaled"])))

\* ZM_3DZD_invariant_121=ZM_3DZD_invariant[~cp.isnan(ZM_3DZD_invariant)]
Mask_CP(f) ==
    Done(Bind(f, "ZM_3DZD_invariant_121", MaskNotNan(f["ZM_3DZD_invariant"])))

\* ---- OneTimeConversion (NumPy) --------------------------------------------

\* np.arange(n) without a dtype: the integers 0 .. n-1
IntArange(n) == [i \in 1..n |-> i - 1] \o <<>>

\* the float64 array an integer array is promoted to in arithmetic
AsFloat(v) == [i \in 1..Len(v) |-> FromInt(v[i])] \o <<>>

\* the sample lattice as the dict the NumPy library takes
SampleStruct(x, y, z) == [X_sample |-> x, Y_sample |-> y, Z_sample |-> z]

\* Dimension_BBox_scaled=Voxel3D.shape; XYZ_SampleStruct = {'X_sample':
\* np.arange(Dimension_BBox_scaled[0] + 1), ...}
UnitLattice_NP(f) ==
    Done(Bind(Bind(f, "Dimension_BBox_scaled", Shape(f["Voxel3D"])),
              "XYZ_SampleStruct",
              SampleStruct(IntArange(Shape(f["Voxel3D"])[1] + 1),
                           IntArange(Shape(f["Voxel3D"])[2] + 1),
                           IntArange(Shape(f["Voxel3D"])[3] + 1))))

\* ZMPY3D.calculate_bbox_moment(Voxel3D, order, struct) on an integer lattice
calculate_bbox_moment_int(Voxel3D, order, S) ==
    calculate_bbox_moment(Voxel3D, order, AsFloat(S.X_sample), AsFloat(S.Y_sample),
                          AsFloat(S.Z_sample))

\* ZMPY3D.calculate_bbox_moment(Voxel3D, order, struct) on a float lattice
calculate_bbox_moment_struct(Voxel3D, order, S) ==
    calculate_bbox_moment(Voxel3D, order, S.X_sample, S.Y_sample, S.Z_sample)

\* ZMPY3D.get_bbox_moment_xyz_sample: the sphere lattice as a dict
get_bbox_moment_xyz_sample_struct(Center, Radius, Dimension) ==
    SampleStruct(get_bbox_moment_xyz_sample(Center, Radius, Dimension)[1],
                 get_bbox_moment_xyz_sample(Center, Radius, Dimension)[2],
                 get_bbox_moment_xyz_sample(Center, Radius, Dimension)[3])

\* [VolumeMass,Center,_]=z.calculate_bbox_moment(Voxel3D,1,XYZ_SampleStruct)
FirstMoment_NP(f) ==
    BindFirstMoment(f, calculate_bbox_moment_int(f["Voxel3D"], 1, f["XYZ_SampleStruct"]))

\* the multiplier applied to the largest distance instead of the average one
RadiusOfFarthest_NP(f, g) ==
    BindRadius(f, <<calculate_molecular_radius(f["Voxel3D"], f["Center"], f["VolumeMass"],
                        g["Param"].default_radius_multiplier)[2],
                    calculate_molecular_radius(f["Voxel3D"], f["Center"], f["VolumeMass"],
                        g["Param"].default_radius_multiplier)[1]>>)

\* [AverageVoxelDist2Center,_]=z.calculate_molecular_radius(Voxel3D,Center,
\*     VolumeMass,Param['default_radius_multiplier'])
Radius_NP(f, g) ==
    BindRadius(f, calculate_molecular_radius(f["Voxel3D"], f["Center"], f["VolumeMass"],
                                             g["Param"].default_radius_multiplier))

\* SphereXYZ_SampleStruct=z.get_bbox_moment_xyz_sample(Center,
\*     AverageVoxelDist2Center,Dimension_BBox_scaled)
SphereLattice_NP(f) ==
    Done(Bind(f, "SphereXYZ_SampleStruct",
              get_bbox_moment_xyz_sample_struct(f["Center"],
                  f["AverageVoxelDist2Center"], f["Dimension_BBox_scaled"])))

\* _,_,SphereBBoxMoment=z.calculate_bbox_moment(Voxel3D,MaxOrder,
\*                                              SphereXYZ_SampleStruct)
SecondMoment_NP(f) ==
    BindSecondMoment(f, calculate_bbox_moment_struct(f["Voxel3D"], f["MaxOrder"],
                                                     f["SphereXYZ_SampleStruct"]))

\* [ZMoment_scaled, _]=z.calculate_bbox_moment_2_zm(MaxOrder,GCache_complex,..)
Zernike_NP(f, g) ==
    BindZernike(f, calculate_bbox_moment_2_zm(f["MaxOrder"], g["GCache_complex"],
                       g["GCache_pqr_linear"], g["GCache_complex_index"],
                       g["CLMCache3D"], f["SphereBBoxMoment"]))

\* ZM_3DZD_invariant=z.get_3dzd_121_descriptor(ZMoment_scaled)
Direct_NP(f) ==
    Done(Bind(f, "ZM_3DZD_invariant", get_3dzd_121_descriptor(f["ZMoment_scaled"])))

\* ZM_3DZD_invariant_121=ZM_3DZD_invariant[~np.isnan(ZM_3DZD_invariant)]
Mask_NP(f) ==
    Done(Bind(f, "ZM_3DZD_invariant_121", MaskNotNan(f["ZM_3DZD_invariant"])))

\* ---- the stages of a conversion, in the order of its statements ----------
Stages == <<"shape", "moment1", "radius", "sphere", "moment2", "zm", "direct", "mask">>

\* the position after stage number k
AfterStage(k) == IF k = Len(Stages) THEN "return" ELSE Stages[k + 1]

Stage_TF(p, f, g) ==
    CASE p = "shape" -> UnitLattice_TF(f)
      [] p = "moment1" -> FirstMoment_TF(f)
      [] p = "radius" -> Radius_TF(f, g)
      [] p = "sphere" -> SphereLattice_TF(f)
      [] p = "moment2" -> SecondMoment_TF(f)
      [] p = "zm" -> Zernike_TF(f, g)
      [] p = "direct" -> Direct_TF(f)
      [] p = "mask" -> Mask_TF(f)

Stage_CP(p, f, g) ==
    CASE p = "shape" -> UnitLattice_CP(f)
      [] p = "moment1" -> FirstMoment_CP(f)
      [] p = "radius" -> Radius_CP(f, g)
      [] p = "sphere" -> SphereLattice_CP(f)
      [] p = "moment2" -> SecondMoment_CP(f)
      [] p = "zm" -> Zernike_CP(f, g)
      [] p = "direct" -> Direct_CP(f)
      [] p = "mask" -> Mask_CP(f)

Stage_NP(p, f, g) ==
    CASE p = "shape" -> UnitLattice_NP(f)
      [] p = "moment1" -> FirstMoment_NP(f)
      [] p = "radius" -> Radius_NP(f, g)
      [] p = "sphere" -> SphereLattice_NP(f)
      [] p = "moment2" -> SecondMoment_NP(f)
      [] p = "zm" -> Zernike_NP(f, g)
      [] p = "direct" -> Direct_NP(f)
      [] p = "mask" -> Mask_NP(f)

\* the statement at position p of the conversion of backend b
Stage(b, p, f, g) ==
    CASE b = "TF" -> Stage_TF(p, f, g)
      [] b = "CP" -> Stage_CP(p, f, g)
      [] OTHER -> Stage_NP(p, f, g)

\* ---- the cells of the timing notebook --------------------------------------

\* the position p of the cells of backend b
At(b, p) == b \o "_" \o p

\* the backend after b in the notebook; "" after the last
NextBackend(b) == CASE b = "TF" -> "CP" [] b = "CP" -> "NP" [] OTHER -> ""

\* def OneTimeConversion_TF / def OneTimeConversion_CP / def OneTimeConversion
ConversionName(b) ==
    CASE b = "TF" -> "OneTimeConversion_TF" [] b = "CP" -> "OneTimeConversion_CP"
      [] OTHER -> "OneTimeConversion"

\* of the names a fresh notebook kernel holds, the one the notebook binds:
\* _, the last output, empty before the first cell
KernelNames == [x \in {"_"} |-> ""]

TimingInit ==
    /\ pc = At("TF", "cache")
    /\ ns = KernelNames
    /\ frame = NoNames
    /\ raised = ""

\* import ... as z; MaxOrder = 20; Param=z.get_global_parameter()
BindParameters(g, b) ==
    Bind(Bind(Bind(g, "z", LibraryOf(b)), "MaxOrder", TimingMaxOrder),
         "Param", [default_radius_multiplier |-> default_radius_multiplier,
                   residue_weight_map |-> residue_weight_map])

\* the cache cell loading the bundle only when no table is bound yet
BindBundleOnce(g, b) ==
    [x \in DOMAIN g \cup {"LogCacheFilePath", "CachePKL"} \cup BundleNames |->
        CASE x \in DOMAIN g \cap BundleNames -> g[x]
          [] x = "LogCacheFilePath" -> [order |-> g["MaxOrder"]]
          [] x = "CachePKL" -> [order |-> g["MaxOrder"]]
          [] x \in BundleNames -> BackendTable(b, x, g["MaxOrder"])
          [] OTHER -> g[x]]

\* LogCacheFilePath=...; with open(LogCacheFilePath, 'rb') as file:
\*     CachePKL = pickle.load(file)
\* then the five tables converted to arrays of the backend
BindBundle(g, b) ==
    [x \in DOMAIN g \cup {"LogCacheFilePath", "CachePKL"} \cup BundleNames |->
        CASE x = "LogCacheFilePath" -> [order |-> g["MaxOrder"]]
          [] x = "CachePKL" -> [order |-> g["MaxOrder"]]
          [] x \in BundleNames -> BackendTable(b, x, g["MaxOrder"])
          [] OTHER -> g[x]]

\* open() of a path with no file: the exception of the built-in, with the
\* names before the with statement bound and no table bound
OpenMissing(g) == Bind(g, "LogCacheFilePath", [order |-> g["MaxOrder"]])

\* the tables in the order the cell converts them
BundleOrder ==
    <<"GCache_pqr_linear", "GCache_complex", "GCache_complex_index", "CLMCache3D",
      "CLMCache">>

\* the bundle loaded without its key number j: CachePKL[key] raises before
\* the assignment, the tables before it are bound for b, the others are left
\* as they were
BindBundleUpTo(g, b, j) ==
    [x \in DOMAIN g \cup {"LogCacheFilePath", "CachePKL"}
             \cup {BundleOrder[i] : i \in 1..(j - 1)} |->
        CASE x = "LogCacheFilePath" -> [order |-> g["MaxOrder"]]
          [] x = "CachePKL" -> [order |-> g["MaxOrder"]]
          [] x \in {BundleOrder[i] : i \in 1..(j - 1)} -> BackendTable(b, x, g["MaxOrder"])
          [] OTHER -> g[x]]

\* the cache cell of b ended by the exception err with the names g bound
TimingCellFails(g, err) ==
    /\ ns' = g
    /\ raised' = err
    /\ pc' = "failed"
    /\ UNCHANGED frame

\* the outcome of a cache cell: the bundle file of the installed package is
\* there with all its keys (missing = 0), it lacks its key number missing,
\* or the file is not there (missing > Len(BundleOrder))
CacheCell(b, missing) ==
    IF missing = 0
    THEN /\ ns' = BindBundle(BindParameters(ns, b), b)
         /\ pc' = At(b, "def")
         /\ raised' = ""
         /\ UNCHANGED frame
    ELSE IF missing <= Len(BundleOrder)
    THEN TimingCellFails(BindBundleUpTo(BindParameters(ns, b), b, missing), "KeyError")
    ELSE TimingCellFails(OpenMissing(BindParameters(ns, b)), "FileNotFoundError")

TimingLoadCache ==
    \E b \in {"TF", "CP", "NP"}, missing \in 0..(Len(BundleOrder) + 1) :
        /\ pc = At(b, "cache")
        /\ CacheCell(b, missing)

\* the cell with the def statement
TimingDef ==
    \E b \in {"TF", "CP", "NP"} :
        /\ pc = At(b, "def")
        /\ ns' = Bind(ns, ConversionName(b), "function")
        /\ pc' = At(b, "bench")
        /\ UNCHANGED <<frame, raised>>

\* Voxel3D = a random grid; Repeat=10000; for _ in range(Repeat): the
\* iterator of the for statement starts at 0
TimingBenchmark ==
    \E b \in {"TF", "CP", "NP"}, grid \in TimingGrids :
        /\ pc = At(b, "bench")
        /\ ns' = Bind(Bind(Bind(ns, "Voxel3D", grid), "Repeat", Repeat), "range", 0)
        /\ pc' = At(b, "for")
        /\ UNCHANGED <<frame, raised>>

\* the cell after the loop of b: the next backend's cache cell, or the end
AfterLoop(b) == IF NextBackend(b) = "" THEN "done" ELSE At(NextBackend(b), "cache")

\* for _ in range(Repeat): the next value bound to _, or the loop left
TimingFor ==
    \E b \in {"TF", "CP", "NP"} :
        /\ pc = At(b, "for")
        /\ IF ns["range"] < ns["Repeat"]
           THEN /\ ns' = Bind(Bind(ns, "_", ns["range"]), "range", ns["range"] + 1)
                /\ pc' = At(b, "call")
           ELSE /\ ns' = ns
                /\ pc' = AfterLoop(b)
        /\ UNCHANGED <<frame, raised>>

\* OneTimeConversion_TF(Voxel3D,MaxOrder): a new frame with the arguments
TimingCall ==
    \E b \in {"TF", "CP", "NP"} :
        /\ pc = At(b, "call")
        /\ frame' = [x \in {"Voxel3D", "MaxOrder"} |-> ns[x]]
        /\ pc' = At(b, Stages[1])
        /\ UNCHANGED <<ns, raised>>

\* the outcome r of stage number k of backend b; an exception leaves the
\* function and the loop, the %%time of the cell shows its traceback, and the
\* cell after the loop runs next
StageOutcome(b, k, r) ==
    IF r.err # ""
    THEN /\ raised' = r.err
         /\ frame' = NoNames
         /\ pc' = AfterLoop(b)
         /\ UNCHANGED ns
    ELSE /\ frame' = r.frame
         /\ pc' = At(b, AfterStage(k))
         /\ UNCHANGED <<ns, raised>>

\* the shape of the grid and the unit lattice of the running conversion
TimingUnitLattice ==
    \E b \in {"TF", "CP", "NP"} :
        /\ pc = At(b, "shape")
        /\ StageOutcome(b, 1, Stage(b, "shape", frame, ns))

\* the first moment pass, of order 1 of the running conversion
TimingFirstMoment ==
    \E b \in {"TF", "CP", "NP"} :
        /\ pc = At(b, "moment1")
        /\ StageOutcome(b, 2, Stage(b, "moment1", frame, ns))

\* the molecular radius of the running conversion
TimingRadius ==
    \E b \in {"TF", "CP", "NP"} :
        /\ pc = At(b, "radius")
        /\ StageOutcome(b, 3, Stage(b, "radius", frame, ns))

\* the sphere-rescaled lattice of the running conversion
TimingSphereLattice ==
    \E b \in {"TF", "CP", "NP"} :
        /\ pc = At(b, "sphere")
        /\ StageOutcome(b, 4, Stage(b, "sphere", frame, ns))

\* the second moment pass, of order MaxOrder of the running conversion
TimingSecondMoment ==
    \E b \in {"TF", "CP", "NP"} :
        /\ pc = At(b, "moment2")
        /\ StageOutcome(b, 5, Stage(b, "moment2", frame, ns))

\* the Zernike transform of the running conversion
TimingZernike ==
    \E b \in {"TF", "CP", "NP"} :
        /\ pc = At(b, "zm")
        /\ StageOutcome(b, 6, Stage(b, "zm", frame, ns))

\* the direct invariant descriptor of the running conversion
TimingDirect ==
    \E b \in {"TF", "CP", "NP"} :
        /\ pc = At(b, "direct")
        /\ StageOutcome(b, 7, Stage(b, "direct", frame, ns))

\* the NaN filter of the running conversion
TimingMask ==
    \E b \in {"TF", "CP", "NP"} :
        /\ pc = At(b, "mask")
        /\ StageOutcome(b, 8, Stage(b, "mask", frame, ns))

\* the loop body feeding the returned descriptor back as the grid
TimingReturnIntoGrid ==
    \E b \in {"TF", "CP", "NP"} :
        /\ pc = At(b, "return")
        /\ ns' = Bind(ns, "Voxel3D", frame["ZM_3DZD_invariant_121"])
        /\ frame' = NoNames
        /\ pc' = At(b, "for")
        /\ UNCHANGED raised

\* return ZM_3DZD_invariant_121: the frame ends, the loop body drops the value
TimingReturn ==
    \E b \in {"TF", "CP", "NP"} :
        /\ pc = At(b, "return")
        /\ frame' = NoNames
        /\ pc' = At(b, "for")
        /\ UNCHANGED <<ns, raised>>

TimingNext ==
    \/ TimingLoadCache
    \/ TimingDef
    \/ TimingBenchmark
    \/ TimingFor
    \/ TimingCall
    \/ TimingUnitLattice
    \/ TimingFirstMoment
    \/ TimingRadius
    \/ TimingSphereLattice
    \/ TimingSecondMoment
    \/ TimingZernike
    \/ TimingDirect
    \/ TimingMask
    \/ TimingReturn

TimingSpec == TimingInit /\ [][TimingNext]_vars

\* ---------------------------------------------------------------------
\* Properties
\* ---------------------------------------------------------------------

\* the two sides of the comparison, as the score cell reads them
MIA == ns["MomentInvariantRawA"]
MIB == ns["MomentInvariantRawB"]
GDA == ns["GeoDescriptorA"]
GDB == ns["GeoDescriptorB"]

\* a[i] with the wrap-around of an integer-array index, i counted from 0
ElementAt(a, i) == a[(i % Len(a)) + 1]

\* sum over i of w[i] * |A[idx[i]] - B[idx[i]]|, accumulated left to right
RECURSIVE WeightedL1(_, _, _, _, _, _)
WeightedL1(A, B, idx, w, i, acc) ==
    IF i > Len(idx) \/ isnan(acc) THEN acc
    ELSE WeightedL1(A, B, idx, w, i + 1,
             FAdd(acc, FMul(FAbs(FSub(ElementAt(A, idx[i]), ElementAt(B, idx[i]))),
                            w[i])))

\* sum over i of w[i] * 2|a[i] - b[i]| / (1 + |a[i]| + |b[i]|)
RECURSIVE RelativeL1(_, _, _, _, _)
RelativeL1(a, b, w, i, acc) ==
    IF i > Len(a) \/ isnan(acc) THEN acc
    ELSE RelativeL1(a, b, w, i + 1,
             FAdd(acc, FMul(w[i],
                 FDiv(FMul(FromInt(2), FAbs(FSub(a[i], b[i]))),
                      FAdd(FAdd(FromInt(1), FAbs(a[i])), FAbs(b[i]))))))

\* the fixed tables of the comparator, in the order the score cell stacks them
IndexTable ==
    get_descriptor_property.ZMIndex0 \o get_descriptor_property.ZMIndex1
        \o get_descriptor_property.ZMIndex2 \o get_descriptor_property.ZMIndex3
        \o get_descriptor_property.ZMIndex4
WeightTable ==
    get_descriptor_property.ZMWeight0 \o get_descriptor_property.ZMWeight1
        \o get_descriptor_property.ZMWeight2 \o get_descriptor_property.ZMWeight3
        \o get_descriptor_property.ZMWeight4

\* the rows of a two-dimensional array one after the other
RECURSIVE RowMajor(_, _)
RowMajor(M, n) == IF n > Len(M) THEN <<>> ELSE M[n] \o RowMajor(M, n + 1)

\* the numbers of a two-dimensional array, row-major, its NaN cells left out
KeepNumbers(M) == SelectSeq(RowMajor(M, 1), LAMBDA x : x[1] # "nan")

\* how many cells of a two-dimensional array hold a number
NumberCount(M) ==
    Cardinality({c \in (1..Len(M)) \X (1..Len(M[1])) : M[c[1]][c[2]][1] # "nan"})

RECURSIVE NumberCountSum(_, _)
NumberCountSum(L, k) ==
    IF k > Len(L) THEN 0 ELSE NumberCount(L[k]) + NumberCountSum(L, k + 1)

\* the (n, l) pairs of the triangular invariant up to an order, row-major
TrianglePairs(order) ==
    SelectSeq([i \in 1..((order + 1) * (order + 1)) |->
                  <<(i - 1) \div (order + 1), (i - 1) % (order + 1)>>],
              LAMBDA t : t[2] <= t[1] /\ (t[1] - t[2]) % 2 = 0)

IsZeroGrid(V) ==
    \A i \in 1..Len(V) : \A j \in 1..Len(V[i]) : \A k \in 1..Len(V[i][j]) :
        V[i][j][k] = Zero

\* the locals of the conversion that exist before the first moment pass has
\* returned
EarlyLocals ==
    {"ret", "XYZ", "AA_NameList", "Voxel3D", "MaxOrder", "Dimension_BBox_scaled",
     "X_sample", "Y_sample", "Z_sample"}

\* C1: the scores of (A, B) are bit-for-bit those of (B, A): the raw
\* moment and geometric sums and both rescaled scores are unchanged when
\* the two descriptors are swapped.
C1_SwapSymmetric ==
    pc = "done" =>
        /\ ns["ZMScore"] = WeightedL1(MIB, MIA, ns["ZMIndex"], ns["ZMWeight"], 1, Zero)
        /\ ns["GeoScore"] = RelativeL1(GDB, GDA, ns["P"].GeoWeight, 1, Zero)
        /\ ns["ZMScoreScaled"]
             = FMul(FDiv(FSub(ZMRef, WeightedL1(MIB, MIA, ns["ZMIndex"],
                                                 ns["ZMWeight"], 1, Zero)),
                         ZMRef), Hundred)
        /\ ns["GeoScoreScaled"]
             = FMul(FDiv(FSub(GeoRef, RelativeL1(GDB, GDA, ns["P"].GeoWeight,
                                                  1, Zero)),
                         GeoRef), Hundred)

\* C2: a descriptor compared with itself gives raw sums of exactly zero
\* and rescaled scores of exactly 100.0, for the moment and the geometric
\* score alike.
C2_SelfComparison ==
    (pc = "done" /\ MIA = MIB /\ GDA = GDB) =>
        /\ ns["ZMScore"] = Zero
        /\ ns["GeoScore"] = Zero
        /\ ns["ZMScoreScaled"] = FromInt(100)
        /\ ns["GeoScoreScaled"] = FromInt(100)

C2_Witness ==
    /\ pc = "done" /\ MIA = MIB /\ GDA = GDB
    /\ Len(MIA) >= 121
    /\ \E i \in 1..Len(GDA) : GDA[i] # Zero

\* C3: for the default order 20 the direct descriptor holds exactly 121
\* numbers, one for each (n, l) of the triangular invariant, and the
\* filtered descriptor is as long as the numbers its parts hold.
C3_DirectLength ==
    Bound(frame, "MomentInvariant") =>
        /\ frame["MaxOrder"] = 20
        /\ Len(TrianglePairs(20)) = 121
        /\ NumberCount(frame["ZMList"][1]) = 121
        /\ Len(frame["MomentInvariant"]) = NumberCountSum(frame["ZMList"], 1)
        /\ Len(frame["MomentInvariant"]) >= 121

C3_Witness ==
    /\ pc = "fn_geo"
    /\ Bound(frame, "MomentInvariant")
    /\ Len(frame["ZMList"][1]) = 21
    /\ \E n \in 1..21 : \E l \in 1..21 : frame["ZMList"][1][n][l] = Zero

\* C4: the rescaled scores are (reference - raw) / reference * 100 with
\* the fixed references 6.6 for the geometric and 9.0 for the moment score.
C4_RescaleFormula ==
    pc = "done" =>
        /\ ns["GeoScoreScaled"]
             = FMul(FDiv(FSub(FromRat(66, 10), ns["GeoScore"]), FromRat(66, 10)),
                    FromInt(100))
        /\ ns["ZMScoreScaled"]
             = FMul(FDiv(FSub(FromInt(9), ns["ZMScore"]), FromInt(9)), FromInt(100))

C4_Witness ==
    /\ pc = "done"
    /\ ns["ZMScore"] # Zero /\ ns["GeoScore"] # Zero
    /\ ns["ZMScoreScaled"] # FromInt(100) /\ ns["GeoScoreScaled"] # FromInt(100)

\* C5: the raw moment score is the sum over the fixed index table of
\* weight[i] * |A[index[i]] - B[index[i]]|, the index vector being the
\* concatenation of the five fixed index groups and the weight vector the
\* positionally aligned concatenation of the five weight groups.
C5_MomentScoreFormula ==
    /\ Bound(ns, "ZMIndex") =>
           /\ ns["ZMIndex"] = IndexTable
           /\ ns["ZMWeight"] = WeightTable
           /\ Len(ns["ZMIndex"]) = Len(ns["ZMWeight"])
    /\ Bound(ns, "ZMScore") =>
           ns["ZMScore"] = WeightedL1(MIA, MIB, IndexTable, WeightTable, 1, Zero)

C5_Witness ==
    /\ pc = "done"
    /\ MIA # MIB
    /\ ns["ZMScore"] # Zero

\* C6: the raw geometric score is the sum over the components of
\* geoWeight[i] * 2|a[i] - b[i]| / (1 + |a[i]| + |b[i]|), a and b being
\* the two geometric descriptors, of equal length and component order.
C6_GeoScoreFormula ==
    /\ Bound(frame, "GeoDescriptor") =>
           frame["GeoDescriptor"]
             = <<frame["AverageVoxelDist2Center"], frame["TotalResidueWeight"]>>
                 \o frame["Prctile_list"]
                 \o <<frame["STD_XYZ_dist2center"], frame["S"], frame["K"]>>
    /\ Bound(ns, "GeoScore") =>
           /\ Len(GDA) = Len(GDB)
           /\ Len(GDA) = Len(get_descriptor_property.GeoWeight)
           /\ ns["GeoScore"]
                = RelativeL1(GDA, GDB, get_descriptor_property.GeoWeight, 1, Zero)

C6_Witness ==
    /\ pc = "done"
    /\ GDA # GDB
    /\ ns["GeoScore"] # Zero

\* the names a first moment pass that succeeded, or a later stage, binds
LaterNames ==
    {"VolumeMass", "Center", "AverageVoxelDist2Center", "SphereBBoxMoment",
     "ZMoment_scaled", "ZMoment_raw", "ZMList", "MomentInvariant", "GeoDescriptor"}

\* the positions of the score cell after the call for w has returned
AfterCall(w) ==
    IF w = "A" THEN {"call_B", "zmscore", "geoscore", "rescale", "done"}
    ELSE {"zmscore", "geoscore", "rescale", "done"}

\* C7: a grid of zero total mass makes the first moment pass fail with
\* DegenerateInputError, in the cell that walks through the statements and
\* in the function alike: no later stage runs on that grid, no name of a
\* later stage is bound for it, and no descriptor is returned for that
\* structure, also when the notebook goes on after the failure.
C7_ZeroMassStops ==
    /\ (Bound(frame, "Voxel3D") /\ IsZeroGrid(frame["Voxel3D"])) =>
           /\ pc \in {"fn_shape", "fn_moment1"}
           /\ DOMAIN frame \subseteq EarlyLocals
    /\ (Bound(ns, "Voxel3D") /\ IsZeroGrid(ns["Voxel3D"]) /\ pc # "walk") =>
           /\ pc = "def" => raised = "DegenerateInputError"
           /\ DOMAIN ns \cap LaterNames = {}
    /\ raised = "DegenerateInputError" =>
           /\ IsZeroGrid(ns["Voxel3D"]) \/ IsZeroGrid(ns["Voxel3D_B"])
           /\ ~Bound(ns, "ZMScore") /\ ~Bound(ns, "GeoScore")
    /\ \A w \in {"A", "B"} :
           (Bound(ns, "Voxel3D_" \o w) /\ IsZeroGrid(ns["Voxel3D_" \o w])) =>
               /\ ~Bound(ns, "MomentInvariantRaw" \o w)
               /\ ~Bound(ns, "GeoDescriptor" \o w)
               /\ pc \notin AfterCall(w)
               /\ pc = "failed" => (raised = "DegenerateInputError" /\ frame = NoNames)

C7_Witness ==
    /\ pc = "failed"
    /\ raised = "DegenerateInputError"
    /\ Bound(ns, "OneTimeConversion_CP")
    /\ IsZeroGrid(ns["Voxel3D"])
    /\ IsZeroGrid(ns["Voxel3D_A"])
    /\ ~IsZeroGrid(ns["Voxel3D_B"])

\* C8: no NaN is ever part of a descriptor handed to the comparison: the
\* filtered moment descriptor of a conversion, and the descriptors of A
\* and B the score cell reads, hold numbers only.
C8_NoNaNCompared ==
    /\ Bound(frame, "MomentInvariant") =>
           \A i \in 1..Len(frame["MomentInvariant"]) :
               frame["MomentInvariant"][i][1] # "nan"
    /\ \A w \in {"A", "B"} :
           Bound(ns, "MomentInvariantRaw" \o w) =>
               \A i \in 1..Len(ns["MomentInvariantRaw" \o w]) :
                   ns["MomentInvariantRaw" \o w][i][1] # "nan"

C8_Witness ==
    /\ pc = "zmscore"
    /\ Len(MIA) < 5 * 121
    /\ Len(MIB) = 5 * 121

\* C9: a value is populated exactly at the (n, l) with 0 <= l <= n and
\* n - l even (and there for the 2l + 1 values of m); every other cell is
\* NaN, is removed by the filter and never becomes a zero, while a zero at
\* a populated cell is kept.
C9_TriangleInvariant ==
    Bound(frame, "MomentInvariant") =>
        /\ \A n \in 0..frame["MaxOrder"] : \A l \in 0..frame["MaxOrder"] :
               /\ (0 <= l /\ l <= n /\ (n - l) % 2 = 0)
                     <=> frame["ZMList"][1][n + 1][l + 1][1] # "nan"
               /\ Len(frame["ZMoment_scaled"].val[n + 1][l + 1])
                     = IF 0 <= l /\ l <= n /\ (n - l) % 2 = 0 THEN 2 * l + 1 ELSE 0
        /\ \A i \in 1..Len(TrianglePairs(frame["MaxOrder"])) :
               frame["MomentInvariant"][i]
                 = frame["ZMList"][1][TrianglePairs(frame["MaxOrder"])[i][1] + 1]
                                     [TrianglePairs(frame["MaxOrder"])[i][2] + 1]

C9_Witness ==
    /\ pc = "fn_geo"
    /\ Bound(frame, "MomentInvariant")
    /\ \E i \in 1..121 : frame["MomentInvariant"][i] = Zero
    /\ \E i \in 1..121 : frame["MomentInvariant"][i] # Zero
    /\ frame["ZMList"][1][1][2] = NaN

\* C10: the filtered descriptor is the direct descriptor followed by the
\* rotation-normalised descriptors of the target orders 2, 3, 4, 5, each
\* taken once and in that order, every part filtered on its own.
C10_ConcatenationOrder ==
    /\ pc = "fn_for" =>
           Len(frame["ZMList"])
             = IF Bound(frame, "TargetOrder2NormRotate")
               THEN frame["TargetOrder2NormRotate"] ELSE 1
    /\ pc \in {"fn_ab", "fn_rot", "fn_mean"} =>
           /\ frame["TargetOrder2NormRotate"] \in 2..5
           /\ Len(frame["ZMList"]) = frame["TargetOrder2NormRotate"] - 1
    /\ pc \in {"fn_rot", "fn_mean"} =>
           frame["ABList"] = calculate_ab_rotation(frame["ZMoment_raw"],
                                                   frame["TargetOrder2NormRotate"])
    /\ pc = "fn_mean" =>
           frame["ZM"] = calculate_zm_by_ab_rotation(frame["ZMoment_raw"],
                                                     frame["ABList"])
    /\ (pc = "fn_for" /\ Bound(frame, "ZM_mean")) =>
           /\ frame["ZM_mean"] = get_mean_invariant(frame["ZM"])
           /\ frame["ZMList"][Len(frame["ZMList"])] = frame["ZM_mean"]
    /\ pc = "fn_concat" =>
           /\ frame["TargetOrder2NormRotate"] = 5
           /\ Len(frame["ZMList"]) = 5
    /\ Bound(frame, "MomentInvariant") =>
           /\ Len(frame["ZMList"]) = 5
           /\ frame["ZMList"][1] = frame["ZM_3DZD_invariant"]
           /\ frame["MomentInvariant"]
                = KeepNumbers(frame["ZMList"][1]) \o KeepNumbers(frame["ZMList"][2])
                    \o KeepNumbers(frame["ZMList"][3]) \o KeepNumbers(frame["ZMList"][4])
                    \o KeepNumbers(frame["ZMList"][5])

C10_Witness ==
    /\ pc = "fn_return"
    /\ Len(frame["ZMList"]) = 5
    /\ Len(frame["MomentInvariant"]) = 5 * 121
    /\ frame["TargetOrder2NormRotate"] = 5

\* ---- the timing notebook -------------------------------------------------

\* the positions of an invocation: before each stage, and before the return
Positions == Stages \o <<"return">>

\* the names of the sample lattice of backend b, unit or sphere-rescaled
LatticeNames(b, prefix) ==
    IF b = "NP" THEN {IF prefix = "" THEN "XYZ_SampleStruct" ELSE "SphereXYZ_SampleStruct"}
    ELSE {prefix \o "X_sample", prefix \o "Y_sample", prefix \o "Z_sample"}

\* the locals that stage number k of backend b binds
StageOutputs(b, k) ==
    CASE k = 1 -> {"Dimension_BBox_scaled"} \cup LatticeNames(b, "")
      [] k = 2 -> {"VolumeMass", "Center", "_"}
      [] k = 3 -> {"AverageVoxelDist2Center"}
      [] k = 4 -> LatticeNames(b, "Sphere_")
      [] k = 5 -> {"SphereBBoxMoment"}
      [] k = 6 -> {"ZMoment_scaled"}
      [] k = 7 -> {"ZM_3DZD_invariant"}
      [] k = 8 -> {"ZM_3DZD_invariant_121"}

\* the locals bound when stage number k starts: the arguments and the
\* outputs of the stages before it
LocalsBefore(b, k) == {"Voxel3D", "MaxOrder"} \cup UNION {StageOutputs(b, j) : j \in 1..(k-1)}

\* the sphere-rescaled lattice in the locals f of backend b, as three vectors
SphereLatticeIn(b, f) ==
    IF b = "NP"
    THEN <<f["SphereXYZ_SampleStruct"].X_sample, f["SphereXYZ_SampleStruct"].Y_sample,
           f["SphereXYZ_SampleStruct"].Z_sample>>
    ELSE <<f["Sphere_X_sample"], f["Sphere_Y_sample"], f["Sphere_Z_sample"]>>

\* the output of the stage just before stage number k, in the locals f, is
\* the library's result on the outputs of the stages before that one
ChainedAt(b, k, f, g) ==
    /\ k = 4 => f["AverageVoxelDist2Center"] =
                    calculate_molecular_radius(f["Voxel3D"], f["Center"], f["VolumeMass"],
                        g["Param"].default_radius_multiplier)[1]
    /\ k = 5 => SphereLatticeIn(b, f) =
                    get_bbox_moment_xyz_sample(f["Center"], f["AverageVoxelDist2Center"],
                                               f["Dimension_BBox_scaled"])
    /\ k = 6 => f["SphereBBoxMoment"] =
                    calculate_bbox_moment(f["Voxel3D"], f["MaxOrder"],
                        SphereLatticeIn(b, f)[1], SphereLatticeIn(b, f)[2],
                        SphereLatticeIn(b, f)[3]).Moment
    /\ k = 7 => f["ZMoment_scaled"] =
                    calculate_bbox_moment_2_zm(f["MaxOrder"], g["GCache_complex"],
                        g["GCache_pqr_linear"], g["GCache_complex_index"],
                        g["CLMCache3D"], f["SphereBBoxMoment"]).scaled
    /\ k = 8 => f["ZM_3DZD_invariant"] = get_3dzd_121_descriptor(f["ZMoment_scaled"])
    /\ k = 9 => f["ZM_3DZD_invariant_121"] = KeepNumbers(f["ZM_3DZD_invariant"])

\* when a stage starts, exactly the outputs of the stages before it are
\* bound, and the newest of them is the result of its stage
StageStarts ==
    \A b \in {"TF", "CP", "NP"} : \A k \in 1..Len(Positions) :
        pc = At(b, Positions[k]) =>
            /\ DOMAIN frame = LocalsBefore(b, k)
            /\ frame["Voxel3D"] = ns["Voxel3D"]
            /\ ChainedAt(b, k, frame, ns)

\* a stage leaves the arguments and the outputs of the stages before it as
\* they are (the throwaway name _ apart)
StageKeeps ==
    \A b \in {"TF", "CP", "NP"} : \A k \in 1..(Len(Positions) - 1) :
        (pc = At(b, Positions[k]) /\ pc' = At(b, Positions[k + 1])) =>
            \A x \in DOMAIN frame \ {"_"} : frame'[x] = frame[x]

\* C13: within one invocation the stages run in the order first moment pass,
\* molecular radius, sphere-rescaled lattice, second moment pass, Zernike
\* transform, invariant descriptor, NaN filter: when a stage starts, exactly
\* the outputs of the stages before it are bound, none of a later stage, and
\* each bound output is the result of its stage on the output of the stage
\* just before it, for the grid the invocation was called with
C13_StageOrder == []StageStarts /\ [][StageKeeps]_vars

C13_Witness ==
    /\ pc = At("TF", "return")
    /\ Len(frame["ZM_3DZD_invariant_121"]) = 121
    /\ frame["ZMoment_scaled"] # frame["_"]

\* C15: a cache cell whose bundle is missing (a failure that is neither a
\* key missing from a bundle that is there nor a degenerate grid) fails with
\* CacheNotFoundError, at once and for good: the run has stopped, no table of
\* that cell is bound and no stage of a conversion runs
C15_MissingBundle ==
    (pc = "failed" /\ raised \notin {"KeyError", "DegenerateInputError"}) =>
        /\ raised = "CacheNotFoundError"
        /\ frame = NoNames
        /\ "CachePKL" \in DOMAIN ns => BundleNames \subseteq DOMAIN ns

\* C16: the bundle of a MaxOrder is loaded once: a name bound to one of its
\* tables is never bound again, by a conversion or by a later load
C16_LoadedOnce ==
    [][\A x \in BundleNames : (x \in DOMAIN ns /\ x \in DOMAIN ns') => ns'[x] = ns[x]]_vars

\* the pipeline of spec 4.2 to 4.4 on a grid V, stage by stage
RefFirstPass(V) ==
    calculate_bbox_moment(V, 1, arange(Shape(V)[1] + 1), arange(Shape(V)[2] + 1),
                          arange(Shape(V)[3] + 1))
RefRadiusFrom(V, g, first) ==
    calculate_molecular_radius(V, first.Center, first.VolumeMass,
                               g["Param"].default_radius_multiplier)[1]
RefRadius(V, g) == RefRadiusFrom(V, g, RefFirstPass(V))
RefSphereLatticeFrom(V, g, first) ==
    get_bbox_moment_xyz_sample(first.Center, RefRadiusFrom(V, g, first), Shape(V))
RefSphereLattice(V, g) == RefSphereLatticeFrom(V, g, RefFirstPass(V))
RefSecondPassOn(V, order, lattice) ==
    calculate_bbox_moment(V, order, lattice[1], lattice[2], lattice[3])
RefSecondPass(V, order, g) == RefSecondPassOn(V, order, RefSphereLattice(V, g))
RefZernike(V, order, g) ==
    calculate_bbox_moment_2_zm(order, g["GCache_complex"], g["GCache_pqr_linear"],
        g["GCache_complex_index"], g["CLMCache3D"], RefSecondPass(V, order, g).Moment)
RefDescriptor(V, order, g) ==
    KeepNumbers(get_3dzd_121_descriptor(RefZernike(V, order, g).scaled))

\* the unit lattice in the locals f of backend b, as three vectors of numbers
UnitLatticeIn(b, f) ==
    IF b = "NP"
    THEN <<AsFloat(f["XYZ_SampleStruct"].X_sample), AsFloat(f["XYZ_SampleStruct"].Y_sample),
           AsFloat(f["XYZ_SampleStruct"].Z_sample)>>
    ELSE <<f["X_sample"], f["Y_sample"], f["Z_sample"]>>

\* the nodes 0, 1, .. n of an axis of n cells
AxisNodes(n) == [i \in 1..(n + 1) |-> FromInt(i - 1)]

\* C18: the TensorFlow, CuPy and NumPy conversions are equivalent: on the same
\* grid, order and tables each uses the unit lattice of dim+1 nodes per axis,
\* order 1 in the first pass, the average radius for the sphere lattice and
\* the scaled moments for the descriptor, and each returns the descriptor of
\* the pipeline for that grid, the same for the three
C18_BackendsAgree ==
    \A b \in {"TF", "CP", "NP"} :
        /\ pc = At(b, "moment1") =>
               UnitLatticeIn(b, frame) = [a \in 1..3 |-> AxisNodes(Shape(ns["Voxel3D"])[a])]
        /\ pc = At(b, "radius") =>
               /\ frame["_"].order = 1
               /\ frame["VolumeMass"] = RefFirstPass(ns["Voxel3D"]).VolumeMass
        /\ pc = At(b, "moment2") =>
               SphereLatticeIn(b, frame) = RefSphereLattice(ns["Voxel3D"], ns)
        /\ pc = At(b, "direct") =>
               frame["ZMoment_scaled"] =
                   RefZernike(ns["Voxel3D"], ns["MaxOrder"], ns).scaled
        /\ pc = At(b, "return") =>
               frame["ZM_3DZD_invariant_121"] =
                   RefDescriptor(ns["Voxel3D"], ns["MaxOrder"], ns)

C18_Witness ==
    /\ pc = At("NP", "return")
    /\ ns["OneTimeConversion_TF"] = "function"
    /\ ns["OneTimeConversion_CP"] = "function"
    /\ ns["Voxel3D"] = UniformGrid(1, 3)
    /\ frame["ZM_3DZD_invariant_121"] # RefDescriptor(UniformGrid(1, 1), ns["MaxOrder"], ns)

\* the cells where the notebook binds the grid
BindsGrid(p) == p \in {At(b, "bench") : b \in {"TF", "CP", "NP"}}

\* the positions where a conversion is entered, and where it returns
Entered(p) == p \in {At(b, Stages[1]) : b \in {"TF", "CP", "NP"}}
Returning(p) == p \in {At(b, "return") : b \in {"TF", "CP", "NP"}}

\* C20: an invocation is stateless: whichever iteration of the loop it is, it
\* starts from its two arguments alone, it returns the descriptor that the
\* grid, the order and the tables determine, and no step of it or of the
\* loop around it changes the grid
C20_Stateless ==
    [][/\ Entered(pc') => frame' = [x \in {"Voxel3D", "MaxOrder"} |-> ns[x]]
       /\ (~BindsGrid(pc) /\ "Voxel3D" \in DOMAIN ns) =>
              ("Voxel3D" \in DOMAIN ns' /\ ns'["Voxel3D"] = ns["Voxel3D"])
       /\ Returning(pc') =>
              frame'["ZM_3DZD_invariant_121"] =
                  RefDescriptor(ns["Voxel3D"], ns["MaxOrder"], ns)
       /\ Returning(pc) => frame' = NoNames]_vars

C20_Witness ==
    /\ pc = At("CP", "return")
    /\ ns["_"] = Repeat - 1
    /\ Len(frame["ZM_3DZD_invariant_121"]) = 121

\* ---- the rotation path of the shape-score notebook -----------------------

\* the target orders of the rotation path
TargetOrders == 2..MaxTargetOrder2NormRotate

\* the target orders whose candidate list, derived from the raw moments, is empty
OrdersWithoutCandidates(raw) == {T \in TargetOrders : Len(calculate_ab_rotation(raw, T)) = 0}

\* the cell (n, l) of a descriptor
CellOf(M, t) == M[t[1] + 1][t[2] + 1]

\* the descriptor of each rotated moment set
DescriptorsOf(sets) == [c \in 1..Len(sets) |-> get_3dzd_121_descriptor(sets[c])] \o <<>>

\* every populated cell of mean is the sum of that cell over the count
\* descriptors inv, divided by count
MeanOverAll(mean, inv, count, pairs) ==
    \A t \in 1..Len(pairs) :
        CellOf(mean, pairs[t]) =
            FDiv(FSum([c \in 1..count |-> CellOf(inv[c], pairs[t])]), FromInt(count))

\* C11: a target order for which the aligner returns no candidate gives a
\* mean descriptor that is NaN in every cell, without an error; the caller
\* drops that slot whole from the concatenated descriptor, which holds the
\* 121 numbers of the direct descriptor and of each order that has
\* candidates; a mean is taken over exactly the candidates that exist
C11_EmptySlotDropped ==
    /\ (pc = "fn_for" /\ Bound(frame, "ZM_mean")) =>
           /\ raised = ""
           /\ Len(frame["ZM"].sets) = Len(frame["ABList"])
           /\ Len(frame["ABList"]) = 0 => NumberCount(frame["ZM_mean"]) = 0
           /\ Len(frame["ABList"]) > 0 =>
                  MeanOverAll(frame["ZM_mean"], DescriptorsOf(frame["ZM"].sets),
                              Len(frame["ABList"]), TrianglePairs(frame["MaxOrder"]))
    /\ pc = "fn_geo" =>
           /\ \A T \in TargetOrders :
                  T \in OrdersWithoutCandidates(frame["ZMoment_raw"])
                      <=> NumberCount(frame["ZMList"][T]) = 0
           /\ Len(frame["MomentInvariant"]) =
                  121 * (1 + Cardinality(TargetOrders
                                         \ OrdersWithoutCandidates(frame["ZMoment_raw"])))
           /\ \A i \in 1..Len(frame["MomentInvariant"]) :
                  ~isnan(frame["MomentInvariant"][i])

C11_Witness ==
    /\ pc = "fn_geo"
    /\ raised = ""
    /\ OrdersWithoutCandidates(frame["ZMoment_raw"]) # {}
    /\ OrdersWithoutCandidates(frame["ZMoment_raw"]) # TargetOrders

\* the tables of the bundle generated for one MaxOrder
OrderTables ==
    {"GCache_pqr_linear", "GCache_complex", "GCache_complex_index", "CLMCache3D",
     "CLMCache", "RotationIndex"}

\* C14: every coefficient table a transform uses comes from the one bundle
\* generated for the notebook's MaxOrder, and that MaxOrder is the order the
\* conversion passes to the second moment pass and to the Zernike transform,
\* also though the conversion is called with an order argument of its own;
\* no transform stops on an order mismatch
C14_OneBundle ==
    /\ \A x \in OrderTables \cap DOMAIN ns : ns[x] = CacheTable(x, ns["MaxOrder"])
    /\ pc \in {"fn_moment2", "fn_zm"} =>
           \A x \in OrderTables : ns[x].order = frame["MaxOrder"]
    /\ pc = "fn_zm" => frame["SphereBBoxMoment"].order = ns["GCache_pqr_linear"].order
    /\ pc = "fn_direct" =>
           /\ frame["ZMoment_raw"].order = ns["GCache_complex"].order
           /\ frame["ZMoment_scaled"].order = ns["CLMCache3D"].order
    /\ raised # "OrderMismatchError"

C14_Witness ==
    /\ pc = "fn_direct"
    /\ frame["ret"] = "B"
    /\ frame["MaxOrder"] = 20
    /\ ns["MaxOrder"] = 20
    /\ frame["ZMoment_raw"].order = 20

\* C19: the two outputs of the Zernike transform do not cross: the direct
\* descriptor is the descriptor of the scaled moments, and for every target
\* order 2 to 5 the candidates are derived from the raw moments and the
\* rotation is applied to the raw moments
C19_NoCrossing ==
    /\ (pc = "fn_for" /\ ~Bound(frame, "TargetOrder2NormRotate")) =>
           /\ frame["ZM_3DZD_invariant"] = get_3dzd_121_descriptor(frame["ZMoment_scaled"])
           /\ frame["ZMList"] = <<frame["ZM_3DZD_invariant"]>>
    /\ pc = "fn_rot" =>
           /\ frame["TargetOrder2NormRotate"] \in 2..5
           /\ frame["ABList"] = calculate_ab_rotation(frame["ZMoment_raw"],
                                                      frame["TargetOrder2NormRotate"])
    /\ pc = "fn_mean" =>
           frame["ZM"] = calculate_zm_by_ab_rotation(frame["ZMoment_raw"], frame["ABList"])
    /\ pc = "fn_concat" => frame["TargetOrder2NormRotate"] = 5

C19_Witness ==
    /\ pc = "fn_mean"
    /\ frame["TargetOrder2NormRotate"] = 4
    /\ Len(frame["ABList"]) > 0
    /\ frame["ZMoment_raw"] # frame["ZMoment_scaled"]
    /\ frame["ZM_3DZD_invariant"] # get_3dzd_121_descriptor(frame["ZMoment_raw"])
    /\ frame["ABList"] # calculate_ab_rotation(frame["ZMoment_scaled"], 4)

\* the arguments of the call for w, in a new frame
CallFrame(g, w) ==
    [x \in {"ret", "XYZ", "AA_NameList", "Voxel3D", "MaxOrder"} |->
        CASE x = "ret" -> w
          [] x = "MaxOrder" -> CallOrder
          [] OTHER -> g[x \o "_" \o w]]

\* the conversion run from the outcome r to its return or its failure
RECURSIVE RunFrom(_, _)
RunFrom(r, g) ==
    IF r.pc \in {"fn_return", "failed"} THEN r
    ELSE RunFrom(ScoreStep(r.pc, r.frame, g), g)

\* the locals of the call for w at its return
AloneResult(g, w) == RunFrom(Goes(CallFrame(g, w), "fn_shape"), g)

\* the positions of the row-major flattening of M that z[~cp.isnan(z)] keeps,
\* each tagged with the part k of ZMList it belongs to
KeptSlots(k, flat) ==
    SelectSeq([i \in 1..Len(flat) |-> <<k, i>>] \o <<>>, LAMBDA t : ~isnan(flat[t[2]]))

\* the kept slots of the part k, a two-dimensional array
KeptSlotsOfPart(k, M) == KeptSlots(k, Flatten(M))

\* for each position of the concatenated, NaN-filtered descriptor vector, the
\* part of ZMList (1 the direct part, then one per target order) and the
\* flattened (n, l) slot its number was taken from
SlotsOfVector(ZMList) ==
    Concatenate([k \in 1..Len(ZMList) |-> KeptSlotsOfPart(k, ZMList[k])])

\* every entry of the index table addresses, in both vectors, a position that
\* exists and that holds the same slot of the same part
SameSlots(ZMIndex, LenA, LenB, SlotsA, SlotsB) ==
    \A j \in 1..Len(ZMIndex) :
        /\ ZMIndex[j] < LenA
        /\ ZMIndex[j] < LenB
        /\ SlotsA[ZMIndex[j] + 1] = SlotsB[ZMIndex[j] + 1]

\* C21: when the two descriptors are compared, every entry i of ZMIndex is
\* within the bounds of both NaN-filtered concatenated vectors, and A[i] and
\* B[i] stem from the same part and the same (n, l) slot, whatever the number
\* of slots the filter dropped in each structure.
C21_SameSlotInBoth ==
    (pc = "zmscore" /\ raised = "") =>
        SameSlots(ns["ZMIndex"], Len(MIA), Len(MIB),
                  SlotsOfVector(AloneResult(ns, "A").frame["ZMList"]),
                  SlotsOfVector(AloneResult(ns, "B").frame["ZMList"]))

\* ---- the module-level names of the timing notebook ------------------------

\* the tables a conversion function reads from the module namespace
CallTimeTables == {"GCache_pqr_linear", "GCache_complex", "GCache_complex_index", "CLMCache3D"}

\* the positions of an invocation of the conversion of backend b: the call
\* in the loop body, every statement of the function, and the return
Invoking(b) == {At(b, "call")} \cup {At(b, Positions[k]) : k \in 1..Len(Positions)}

\* C22: with the cells run in document order, at every position of every
\* invocation of a backend's conversion function the module-level alias z
\* names that backend's library, and each cache table the function looks up
\* is the table the same backend's cache cell bound, converted to that
\* backend's array type, for the MaxOrder of the notebook.
C22_OwnLibraryAndTables ==
    \A b \in {"TF", "CP", "NP"} :
        pc \in Invoking(b) =>
            /\ ns["z"] = LibraryOf(b)
            /\ \A x \in CallTimeTables : ns[x] = BackendTable(b, x, ns["MaxOrder"])

\* the NumPy conversion at its Zernike transform, after the TensorFlow and the
\* CuPy sections have run and bound the same names before it
C22_Witness ==
    /\ pc = At("NP", "zm")
    /\ Bound(ns, "OneTimeConversion_TF")
    /\ Bound(ns, "OneTimeConversion_CP")
    /\ ns["z"] = "ZMPY3D"
    /\ ns["CLMCache3D"].kind = "numpy.ndarray"
    /\ ns["_"] = Repeat - 1

\* ---- the arithmetic of the rescaled scores ---------------------------------

\* the amounts a raw sum is grown by
Growth == {FromRat(1, 64), FromRat(1, 16), FromRat(1, 4), FromInt(1), FromInt(4), FromInt(16)}

\* x <= y
FAtMost(x, y) == x = y \/ FLess(x, y)

\* the fixed weights are all non-negative
NonNegativeWeights ==
    /\ \A i \in 1..Len(ns["ZMWeight"]) : FAtMost(Zero, ns["ZMWeight"][i])
    /\ \A i \in 1..Len(ns["P"].GeoWeight) : FAtMost(Zero, ns["P"].GeoWeight[i])

\* the raw sum is >= 0 and its rescaled score is at most 100, is 100 exactly
\* when the raw sum is 0, is below 0 exactly when the raw sum exceeds ref, and
\* is strictly smaller for every larger raw sum
RescaledExactly(ref, raw, score) ==
    /\ FAtMost(Zero, raw)
    /\ FAtMost(score, Hundred)
    /\ (score = Hundred) <=> (raw = Zero)
    /\ FLess(score, Zero) <=> FLess(ref, raw)
    /\ \A d \in Growth :
           FLess(raw, FAdd(raw, d)) => FLess(Rescale(ref, FAdd(raw, d)), score)

\* the raw sum is >= 0 and its rescaled score is at most 100, is 100 when the
\* raw sum is 0, is below 0 exactly when the raw sum exceeds ref, and is never
\* larger for a larger raw sum
RescaledRounded(ref, raw, score) ==
    /\ FAtMost(Zero, raw)
    /\ FAtMost(score, Hundred)
    /\ (raw = Zero) => (score = Hundred)
    /\ FLess(score, Zero) <=> FLess(ref, raw)
    /\ \A d \in Growth :
           FLess(raw, FAdd(raw, d)) => FAtMost(Rescale(ref, FAdd(raw, d)), score)

\* C23 as stated: with non-negative weights both raw sums are >= 0 and each
\* rescaled score is at most 100, equals 100 exactly when its raw sum is 0, is
\* below 0 exactly when its raw sum exceeds its reference constant, and
\* strictly decreases as the raw sum grows.
C23_StrictlyDecreasing ==
    (pc = "done" /\ NonNegativeWeights) =>
        /\ RescaledExactly(GeoRef, ns["GeoScore"], ns["GeoScoreScaled"])
        /\ RescaledExactly(ZMRef, ns["ZMScore"], ns["ZMScoreScaled"])

\* C23, amended: with non-negative weights both raw sums are >= 0 and each
\* rescaled score is at most 100, equals 100 when its raw sum is 0 (and also
\* for a raw sum that the subtraction from the reference rounds away), is
\* below 0 exactly when its raw sum exceeds its reference constant, and never
\* increases as the raw sum grows.
C23_NeverIncreasing ==
    (pc = "done" /\ NonNegativeWeights) =>
        /\ RescaledRounded(GeoRef, ns["GeoScore"], ns["GeoScoreScaled"])
        /\ RescaledRounded(ZMRef, ns["ZMScore"], ns["ZMScoreScaled"])

\* some larger raw sum has the rescaled score of raw
Plateau(ref, raw) ==
    \E d \in Growth : FLess(raw, FAdd(raw, d)) /\ Rescale(ref, FAdd(raw, d)) = Rescale(ref, raw)

\* a structure compared with itself: both raw sums are 0 and both scores 100,
\* and a raw sum that is not 0 gets the score 100 as well
C23_Witness ==
    /\ pc = "done"
    /\ NonNegativeWeights
    /\ ns["ZMScore"] = Zero /\ ns["ZMScoreScaled"] = Hundred
    /\ ns["GeoScore"] = Zero /\ ns["GeoScoreScaled"] = Hundred
    /\ Plateau(ZMRef, ns["ZMScore"])
    /\ Plateau(GeoRef, ns["GeoScore"])

====
